---------------------------- MODULE Spec2Model ----------------------------
(***************************************************************************)
(* Migration of an ESLint configuration to a Biome configuration           *)
(* (crates/biome_cli/src/execute/migrate).                                 *)
(*                                                                         *)
(* The module models                                                       *)
(*   - the decoding of a rule value (Severity, NumberOrString, RuleConf),  *)
(*   - the decoding of a rule map into a Rules set (a FxHashSet<Rule>      *)
(*     whose equality and hash are Rule::name()),                          *)
(*   - Rules::from_iter, Rules::merge_with, ConfigData::from_preset,       *)
(*     ConfigData::merge_with and ConfigData::resolve_extends,             *)
(*   - load_config of a configuration file,                                *)
(*   - ConfigData::into_biome_config and the migration of the rules,       *)
(*   - the translators of the naming-convention and filename-case options. *)
(*                                                                         *)
(* The specifications share the variables:                                 *)
(*   SpecConf     decodes one rule value (pure functions of eslint.rs),    *)
(*   SpecMap      decodes one rule map,                                    *)
(*   SpecLoad     loads one configuration file,                            *)
(*   Spec         loads a configuration and merges / resolves it,          *)
(*   SpecData     does so for a configuration with every field,            *)
(*   SpecMigrate  migrates a loaded configuration,                         *)
(*   SpecOptions  translates the options of one rule.                      *)
(***************************************************************************)
EXTENDS Integers, Sequences, FiniteSets, TLC

VARIABLES
    config,       \* the ConfigData owned by the migration run
    diagnostics,  \* number of DeserializationDiagnostic pushed by the last decoding
    call,         \* the last operation: its name, arguments and result
    ops           \* number of operations applied to config since it was built

vars == <<config, diagnostics, call, ops>>

-----------------------------------------------------------------------------
(* Bounds of the model.                                                    *)

\* Longest rule-value array that is decoded.
MaxArrayLen == 4
\* Most members of a decoded rule map.
MaxMembers == 2
\* Most members of the rule map of a loaded configuration.
MaxConfigMembers == 2
\* Longest `extends` list of a loaded configuration.
MaxExtends == 2
\* Most merge / resolve operations applied to a loaded configuration.
MaxOps == 2
\* Most override blocks of a loaded configuration.
MaxOverrides == 1
\* Most rules of a configuration that is migrated.
MaxMigRules == 2
\* Members of the object of a configuration file.
MaxFileMembers == 2
\* Selections of the options of a naming-convention rule.
MaxSelections == 2

-----------------------------------------------------------------------------
(* Option<T>                                                               *)

None == [some |-> FALSE]
Some(x) == [some |-> TRUE, val |-> x]

\* The element of a singleton. Only({F(x) : x \in {e}}) is F(e) with e
\* evaluated once, as a local variable of the code is.
Only(S) == CHOOSE x \in S : TRUE

-----------------------------------------------------------------------------
(* JSON values as the deserializer sees them (DeserializableValue).         *)
(* `type` is the VisitableType; a value of type "NONE" stands for an       *)
(* element the parser could not produce (the `None` items that             *)
(* `values.flatten()` / `members.flatten()` skip).                         *)

Num(n) == [type |-> "NUMBER", num |-> n, str |-> "", items |-> <<>>]
Str(s) == [type |-> "STR", num |-> 0, str |-> s, items |-> <<>>]
Bool(b) == [type |-> "BOOL", num |-> IF b THEN 1 ELSE 0, str |-> "", items |-> <<>>]
Map(o) == [type |-> "MAP", num |-> 0, str |-> o, items |-> <<>>]
Array(s) == [type |-> "ARRAY", num |-> 0, str |-> "", items |-> s]
Missing == [type |-> "NONE", num |-> 0, str |-> "", items |-> <<>>]

is_type(value, t) == value.type = t

\* Iterator::flatten over Option items: the present items, in order.
RECURSIVE flatten(_)
flatten(s) ==
    IF s = <<>> THEN <<>>
    ELSE IF Head(s).type = "NONE" THEN flatten(Tail(s))
    ELSE <<Head(s)>> \o flatten(Tail(s))

-----------------------------------------------------------------------------
(* Deserializers of biome_deserialize for scalars: a value of the wrong    *)
(* type yields None and one diagnostic.                                    *)

\* u64: a NUMBER that is a non-negative integer.
u64_deserialize(value) ==
    IF is_type(value, "NUMBER") /\ value.num >= 0
    THEN [res |-> Some(value.num), diags |-> 0]
    ELSE [res |-> None, diags |-> 1]

\* String / Text: a STR.
String_deserialize(value) ==
    IF is_type(value, "STR")
    THEN [res |-> Some(value.str), diags |-> 0]
    ELSE [res |-> None, diags |-> 1]

-----------------------------------------------------------------------------
(* NumberOrString and Severity (eslint.rs 442-495).                        *)

Severities == {"Off", "Warn", "Error"}

Number(n) == [kind |-> "Number", num |-> n, str |-> ""]
String(s) == [kind |-> "String", num |-> 0, str |-> s]

NumberOrString_deserialize(value) ==
    IF is_type(value, "STR")
    THEN LET r == String_deserialize(value)
         IN  IF r.res.some THEN [res |-> Some(String(r.res.val)), diags |-> r.diags]
             ELSE [res |-> None, diags |-> r.diags]
    ELSE LET r == u64_deserialize(value)
         IN  IF r.res.some THEN [res |-> Some(Number(r.res.val)), diags |-> r.diags]
             ELSE [res |-> None, diags |-> r.diags]

\* TryFrom<NumberOrString> for Severity: Some(severity) is Ok, None is Err.
Severity_try_from_swapped(value) ==
    IF value.kind = "Number"
    THEN CASE value.num = 0 -> Some("Off")
           [] value.num = 1 -> Some("Error")
           [] value.num = 2 -> Some("Warn")
           [] OTHER -> None
    ELSE CASE value.str = "off" -> Some("Off")
           [] value.str = "warn" -> Some("Warn")
           [] value.str = "error" -> Some("Error")
           [] OTHER -> None

Severity_try_from(value) ==
    IF value.kind = "Number"
    THEN CASE value.num = 0 -> Some("Off")
           [] value.num = 1 -> Some("Warn")
           [] value.num = 2 -> Some("Error")
           [] OTHER -> None
    ELSE CASE value.str = "off" -> Some("Off")
           [] value.str = "warn" -> Some("Warn")
           [] value.str = "error" -> Some("Error")
           [] OTHER -> None

\* #[deserializable(try_from = "NumberOrString")]: decode a NumberOrString,
\* convert it; an Err of the conversion is reported as one diagnostic.
Severity_deserialize(value) ==
    Only({ IF ~r.res.some THEN [res |-> None, diags |-> r.diags]
           ELSE Only({ IF s.some THEN [res |-> s, diags |-> r.diags]
                       ELSE [res |-> None, diags |-> r.diags + 1]
                       : s \in {Severity_try_from(r.res.val)} })
           : r \in {NumberOrString_deserialize(value)} })

-----------------------------------------------------------------------------
(* Option types of the rules with hand-written options, and "()" for a     *)
(* rule modelled without options.                                          *)

Unit == "()"
OptionTypes ==
    {"NoRestrictedGlobal", "AriaRoleOptions", "ArrayTypeOptions",
     "NamingConventionSelection", "FilenameCaseOptions"}

\* NoRestrictedGlobal::deserialize (eslint.rs 615-628): a STR is a Plain
\* name, anything else is decoded as the struct GlobalWithMessage.
NoRestrictedGlobal_deserialize(value) ==
    IF is_type(value, "STR")
    THEN LET r == String_deserialize(value)
         IN  [res |-> Some([variant |-> "Plain", of |-> r.res.val]), diags |-> r.diags]
    ELSE IF is_type(value, "MAP")
         THEN [res |-> Some([variant |-> "WithMessage", of |-> value.str]), diags |-> 0]
         ELSE [res |-> None, diags |-> 1]

\* #[derive(Deserializable)] on a struct: a MAP decodes to the struct (here
\* the struct built from the object literal `value.str`), any other type is
\* None with one diagnostic.
Struct_deserialize(T, value) ==
    IF is_type(value, "MAP")
    THEN [res |-> Some([variant |-> T, of |-> value.str]), diags |-> 0]
    ELSE [res |-> None, diags |-> 1]

\* T::deserialize for the option type T of a rule.
Option_deserialize(T, value) ==
    IF T = "NoRestrictedGlobal" THEN NoRestrictedGlobal_deserialize(value)
    ELSE Struct_deserialize(T, value)

\* filter_map(|val| T::deserialize(&val, "", diagnostics)) over the rest of
\* the array: the options that decode, in order, and the diagnostics of the
\* others.
RECURSIVE filter_map_deserialize(_, _)
filter_map_deserialize(T, values) ==
    IF values = <<>> THEN [res |-> <<>>, diags |-> 0]
    ELSE Only({ [res |-> (IF r.res.some THEN <<r.res.val>> ELSE <<>>) \o rest.res,
                 diags |-> r.diags + rest.diags]
                : r \in {Option_deserialize(T, Head(values))},
                  rest \in {filter_map_deserialize(T, Tail(values))} })

-----------------------------------------------------------------------------
(* RuleConf<T, U> (eslint.rs 339-440).                                     *)

RuleConf_Severity(severity) ==
    [variant |-> "Severity", severity |-> severity, options |-> <<>>]
RuleConf_Option(severity, option) ==
    [variant |-> "Option", severity |-> severity, options |-> <<option>>]
RuleConf_Options(severity, option, option2) ==
    [variant |-> "Options", severity |-> severity, options |-> <<option, option2>>]
RuleConf_Spread(severity, spread) ==
    [variant |-> "Spread", severity |-> severity, options |-> spread]

\* RuleConf::severity: every variant carries it.
RuleConf_severity(conf) == conf.severity

\* A faulty visit_array that accepts an empty array and an undecodable
\* severity as Off.
visit_array_lenient(T, U, items) ==
    LET values == flatten(items)
    IN  IF values = <<>> THEN [res |-> Some(RuleConf_Severity("Off")), diags |-> 1]
        ELSE LET sev == Severity_deserialize(values[1])
             IN  [res |-> Some(RuleConf_Severity(IF sev.res.some THEN sev.res.val ELSE "Off")),
                  diags |-> sev.diags]

\* A faulty visit_array without the TypeId::of::<T>() check: a rule
\* without options goes on decoding the elements after the severity.
visit_array_no_unit_check(T, U, items) ==
    LET values == flatten(items)
    IN  IF values = <<>> THEN [res |-> None, diags |-> 1]
        ELSE LET sev == Severity_deserialize(values[1])
             IN  IF ~sev.res.some THEN [res |-> None, diags |-> sev.diags]
                 ELSE IF Len(values) < 2
                 THEN [res |-> Some(RuleConf_Severity(sev.res.val)), diags |-> sev.diags]
                 ELSE LET opt == Struct_deserialize(T, values[2])
                      IN  IF ~opt.res.some
                          THEN [res |-> Some(RuleConf_Severity(sev.res.val)),
                                diags |-> sev.diags + opt.diags]
                          ELSE [res |-> Some(RuleConf_Option(sev.res.val, opt.res.val)),
                                diags |-> sev.diags + opt.diags]

\* A faulty visit_array that gives up the whole rule when the third
\* element does not decode.
visit_array_no_recovery(T, U, items) ==
    LET values == flatten(items)
    IN  IF values = <<>> THEN [res |-> None, diags |-> 1]
        ELSE LET sev == Severity_deserialize(values[1])
             IN  IF ~sev.res.some THEN [res |-> None, diags |-> sev.diags]
                 ELSE IF T = Unit \/ Len(values) < 2
                 THEN [res |-> Some(RuleConf_Severity(sev.res.val)), diags |-> sev.diags]
                 ELSE LET opt == Option_deserialize(T, values[2])
                      IN  IF ~opt.res.some
                          THEN [res |-> Some(RuleConf_Severity(sev.res.val)),
                                diags |-> sev.diags + opt.diags]
                          ELSE IF Len(values) < 3
                          THEN [res |-> Some(RuleConf_Option(sev.res.val, opt.res.val)),
                                diags |-> sev.diags + opt.diags]
                          ELSE [res |-> Some(RuleConf_Severity(sev.res.val)),
                                diags |-> sev.diags + opt.diags + 1]

\* A faulty end of visit_array that forgets spread.push(option2).
visit_array_third_no_push(T, U, values, severity, option, diags) ==
    IF Len(values) < 3
    THEN [res |-> Some(RuleConf_Option(severity, option)), diags |-> diags]
    ELSE LET opt2 == Option_deserialize(IF U # Unit THEN U ELSE T, values[3])
             rest == filter_map_deserialize(T, SubSeq(values, 4, Len(values)))
         IN  IF ~opt2.res.some
             THEN [res |-> Some(RuleConf_Option(severity, option)),
                   diags |-> diags + opt2.diags]
             ELSE IF U # Unit
             THEN [res |-> Some(RuleConf_Options(severity, option, opt2.res.val)),
                   diags |-> diags + opt2.diags]
             ELSE [res |-> Some(RuleConf_Spread(severity, <<option>> \o rest.res)),
                   diags |-> diags + opt2.diags + rest.diags]

\* The rest of visit_array once the severity and the primary option are
\* decoded (eslint.rs 412-431): `diags` are the diagnostics so far.
visit_array_third(T, U, values, severity, option, diags) ==
    IF Len(values) < 3
    THEN [res |-> Some(RuleConf_Option(severity, option)), diags |-> diags]
    ELSE IF U # Unit
    THEN Only({ IF opt2.res.some
                THEN [res |-> Some(RuleConf_Options(severity, option, opt2.res.val)),
                      diags |-> diags + opt2.diags]
                ELSE \* Recover by ignoring the failed deserialization
                     [res |-> Some(RuleConf_Option(severity, option)),
                      diags |-> diags + opt2.diags]
                : opt2 \in {Option_deserialize(U, values[3])} })
    ELSE Only({ IF ~opt2.res.some
                THEN \* Recover by ignoring the failed deserialization
                     [res |-> Some(RuleConf_Option(severity, option)),
                      diags |-> diags + opt2.diags]
                ELSE Only({ [res |-> Some(RuleConf_Spread(severity,
                                          <<option, opt2.res.val>> \o rest.res)),
                             diags |-> diags + opt2.diags + rest.diags]
                            : rest \in {filter_map_deserialize(T,
                                            SubSeq(values, 4, Len(values)))} })
                : opt2 \in {Option_deserialize(T, values[3])} })

\* The rest of visit_array once the severity is decoded (eslint.rs 402-411).
visit_array_second(T, U, values, severity, diags) ==
    IF T = Unit
    THEN [res |-> Some(RuleConf_Severity(severity)), diags |-> diags]
    ELSE IF Len(values) < 2
    THEN [res |-> Some(RuleConf_Severity(severity)), diags |-> diags]
    ELSE Only({ IF ~opt.res.some
                THEN \* Recover by ignoring the failed deserialization
                     [res |-> Some(RuleConf_Severity(severity)),
                      diags |-> diags + opt.diags]
                ELSE visit_array_third(T, U, values, severity, opt.res.val,
                                       diags + opt.diags)
                : opt \in {Option_deserialize(T, values[2])} })

\* Visitor::visit_array (eslint.rs 387-432). `items` are the elements of the
\* array; T and U are the option types of the rule (Unit for none).
visit_array(T, U, items) ==
    Only({ IF values = <<>>
           THEN \* "A severity is expected."
                [res |-> None, diags |-> 1]
           ELSE Only({ IF ~sev.res.some THEN [res |-> None, diags |-> sev.diags]
                       ELSE visit_array_second(T, U, values, sev.res.val, sev.diags)
                       : sev \in {Severity_deserialize(values[1])} })
           : values \in {flatten(items)} })

\* RuleConf::deserialize (eslint.rs 376-439): a number or a string is a bare
\* severity; anything else is visited as an array (a value that is not an
\* array is None with one diagnostic).
RuleConf_deserialize(T, U, value) ==
    IF is_type(value, "NUMBER") \/ is_type(value, "STR")
    THEN Only({ IF sev.res.some
                THEN [res |-> Some(RuleConf_Severity(sev.res.val)), diags |-> sev.diags]
                ELSE [res |-> None, diags |-> sev.diags]
                : sev \in {Severity_deserialize(value)} })
    ELSE IF is_type(value, "ARRAY") THEN visit_array(T, U, value.items)
    ELSE [res |-> None, diags |-> 1]


-----------------------------------------------------------------------------
(* Rule (eslint.rs 635-687): identity is the name.                         *)

Rule_Any(name, severity) == [variant |-> "Any", name |-> name, severity |-> severity]
Rule_With(variant, conf) == [variant |-> variant, conf |-> conf]

\* A faulty Rule::new that makes every rule a Rule::Any.
Rule_new_any(name, severity) == Rule_Any(name, severity)

\* Rule::new (eslint.rs 649-662).
Rule_new(name, severity) ==
    CASE name = "no-restricted-globals" ->
             Rule_With("NoRestrictedGlobals", RuleConf_Severity(severity))
      [] name = "jsx-a11y/aria-role" ->
             Rule_With("Jsxa11yArioaRoles", RuleConf_Severity(severity))
      [] name = "@typescript-eslint/array-type" ->
             Rule_With("TypeScriptArrayType", RuleConf_Severity(severity))
      [] name = "@typescript-eslint/naming_convention" ->
             Rule_With("TypeScriptNamingConvention", RuleConf_Severity(severity))
      [] name = "unicorn/filename-case" ->
             Rule_With("UnicornFilenameCase", RuleConf_Severity(severity))
      [] OTHER -> Rule_Any(name, severity)

\* Rule::name (eslint.rs 664-675).
Rule_name(rule) ==
    CASE rule.variant = "Any" -> rule.name
      [] rule.variant = "NoRestrictedGlobals" -> "no-restricted-globals"
      [] rule.variant = "Jsxa11yArioaRoles" -> "jsx-a11y/aria-role"
      [] rule.variant = "TypeScriptArrayType" -> "@typescript-eslint/array-type"
      [] rule.variant = "TypeScriptNamingConvention" ->
             "@typescript-eslint/naming_convention"
      [] rule.variant = "UnicornFilenameCase" -> "unicorn/filename-case"

\* The severity a rule is configured with.
Rule_severity(rule) ==
    IF rule.variant = "Any" THEN rule.severity ELSE RuleConf_severity(rule.conf)

\* impl PartialEq for Rule (eslint.rs 678-682).
Rule_eq(a, b) == Rule_name(a) = Rule_name(b)

-----------------------------------------------------------------------------
(* Rules (eslint.rs 497-600): FxHashSet<Rule>, a set of Rule in which no   *)
(* two elements are Rule_eq.                                               *)

\* A faulty insert that compares whole values instead of names.
HashSet_insert_by_value(set, rule) == set \cup {rule}

\* A faulty insert that replaces the element equal to `rule`.
HashSet_insert_replace(set, rule) ==
    {e \in set : ~Rule_eq(e, rule)} \cup {rule}

\* HashSet::insert: when the set holds an element equal to `rule` the set is
\* not modified (the element already there is kept, `rule` is dropped).
HashSet_insert(set, rule) ==
    IF \E e \in set : Rule_eq(e, rule) THEN set ELSE set \cup {rule}

\* HashSet::extend / FromIterator with the elements of a sequence, in order.
RECURSIVE HashSet_extend_seq(_, _)
HashSet_extend_seq(set, rules) ==
    IF rules = <<>> THEN set
    ELSE Only({ HashSet_extend_seq(next, Tail(rules))
                : next \in {HashSet_insert(set, Head(rules))} })

\* HashSet::extend with the elements of another Rules set, one insert per
\* element: the elements of `other` have distinct names, so the order in
\* which it is iterated does not change the result.
RECURSIVE HashSet_extend(_, _)
HashSet_extend(set, other) ==
    IF other = {} THEN set
    ELSE Only({ Only({ HashSet_extend(next, other \ {r})
                       : next \in {HashSet_insert(set, r)} })
                : r \in {CHOOSE e \in other : TRUE} })

\* Rules::from_iter (eslint.rs 500-506): `table` is a sequence of
\* <<name, severity>>.
Rules_from_iter(table) ==
    HashSet_extend_seq({}, [i \in 1..Len(table) |-> Rule_new(table[i][1], table[i][2])])

\* A faulty merge that loses the names both sets configure.
Rules_merge_with_exclusive(self, other) ==
    {r \in self : \A e \in other : ~Rule_eq(e, r)}
    \cup {r \in other : \A e \in self : ~Rule_eq(e, r)}

\* Rules::merge_with (eslint.rs 508-512).
Rules_merge_with(self, other) == HashSet_extend(self, other)

\* The element of `rules` named `name`, when there is one.
Rules_get(rules, name) == CHOOSE r \in rules : Rule_name(r) = name
Rules_has(rules, name) == \E r \in rules : Rule_name(r) = name
Rules_names(rules) == {Rule_name(r) : r \in rules}


-----------------------------------------------------------------------------
(* Decoding of a rule map (eslint.rs 526-600).                             *)

\* The option type of the rule a key of the rule map selects, and the Rule
\* variant it is stored as (the match of visit_map, eslint.rs 554-593).
KeyVariant(rule_name) ==
    CASE rule_name = "no-restricted-globals" -> "NoRestrictedGlobals"
      [] rule_name = "jsx-a11y/aria-role" -> "Jsxa11yArioaRoles"
      [] rule_name = "@typescript-eslint/array-type" -> "TypeScriptArrayType"
      [] rule_name = "@typescript-eslint/naming-convention" -> "TypeScriptNamingConvention"
      [] rule_name = "unicorn/filename-case" -> "UnicornFilenameCase"
      [] OTHER -> "Any"

\* The primary option type of a Rule variant (eslint.rs 636-647); the
\* secondary type is Unit for every variant.
VariantOption(variant) ==
    CASE variant = "NoRestrictedGlobals" -> "NoRestrictedGlobal"
      [] variant = "Jsxa11yArioaRoles" -> "AriaRoleOptions"
      [] variant = "TypeScriptArrayType" -> "ArrayTypeOptions"
      [] variant = "TypeScriptNamingConvention" -> "NamingConventionSelection"
      [] variant = "UnicornFilenameCase" -> "FilenameCaseOptions"
      [] OTHER -> Unit

\* One arm of the match: the RuleConf of the value, and the Rule it makes.
\* res is None when the value does not decode (nothing is inserted).
visit_member(rule_name, value) ==
    LET variant == KeyVariant(rule_name)
    IN  Only({ IF ~conf.res.some THEN [res |-> None, diags |-> conf.diags]
               ELSE IF variant = "Any"
               THEN [res |-> Some(Rule_Any(rule_name, RuleConf_severity(conf.res.val))),
                     diags |-> conf.diags]
               ELSE [res |-> Some(Rule_With(variant, conf.res.val)),
                     diags |-> conf.diags]
               : conf \in {RuleConf_deserialize(VariantOption(variant), Unit, value)} })

\* A faulty visit_map that gives up the whole map at the first member that
\* does not decode.
RECURSIVE visit_map_strict(_, _, _)
visit_map_strict(result, diags, members) ==
    IF members = <<>> THEN [res |-> Some(result), diags |-> diags]
    ELSE LET m == Head(members)
         IN  IF m.key.type = "NONE" THEN visit_map_strict(result, diags, Tail(members))
             ELSE LET r == visit_member(m.key.str, m.value)
                  IN  IF ~r.res.some THEN [res |-> None, diags |-> diags + r.diags]
                      ELSE visit_map_strict(HashSet_insert(result, r.res.val),
                                            diags + r.diags, Tail(members))

\* One iteration of the loop of visit_map (eslint.rs 550-594) over member
\* `m`, from the set and the diagnostics gathered so far. A key that is no
\* text is skipped with its diagnostic.
visit_map_step(result, diags, m) ==
    Only({ IF ~key.res.some THEN [result |-> result, diags |-> diags + key.diags]
           ELSE Only({ [result |-> IF r.res.some THEN HashSet_insert(result, r.res.val)
                                   ELSE result,
                        diags |-> diags + r.diags]
                       : r \in {visit_member(key.res.val, m.value)} })
           : key \in {String_deserialize(m.key)} })

\* Visitor::visit_map (eslint.rs 536-596): the loop over the members, from
\* the set and the diagnostics gathered so far. A member the parser could
\* not produce is skipped by members.flatten().
RECURSIVE visit_map(_, _, _)
visit_map(result, diags, members) ==
    IF members = <<>> THEN [res |-> Some(result), diags |-> diags]
    ELSE IF Head(members).key.type = "NONE"
    THEN visit_map(result, diags, Tail(members))
    ELSE Only({ visit_map(step.result, step.diags, Tail(members))
                : step \in {visit_map_step(result, diags, Head(members))} })

\* Rules::deserialize (eslint.rs 527-599) of a MAP with these members.
Rules_deserialize(members) == visit_map({}, 0, members)


-----------------------------------------------------------------------------
(* Preset tables. Each is the table of the source restricted to the rule   *)
(* names of ModelledNames, in the order of the source.                      *)

ModelledNames ==
    {"no-debugger", "no-var", "no-restricted-globals",
     "react/jsx-uses-react", "react/react-in-jsx-scope",
     "unicorn/filename-case", "unicorn/string-content",
     "jsx-a11y/aria-role",
     "@typescript-eslint/array-type",
     "@typescript-eslint/naming-convention", "@typescript-eslint/naming_convention"}

ESLINT_RECOMMENDED == << <<"no-debugger", "Error">> >>
ESLINT_ALL ==
    << <<"no-debugger", "Error">>, <<"no-restricted-globals", "Error">>,
       <<"no-var", "Error">> >>
REACT_JSX_RUNTIME ==
    << <<"react/react-in-jsx-scope", "Off">>, <<"react/jsx-uses-react", "Off">> >>
REACT_RECOMMENDED ==
    << <<"react/jsx-uses-react", "Error">>, <<"react/react-in-jsx-scope", "Error">> >>
JSXA11Y_STRICT == << <<"jsx-a11y/aria-role", "Error">> >>
TYPESCRIPT_STYLISTIC == << <<"@typescript-eslint/array-type", "Error">> >>
TYPESCRIPT_DISABLE_TYPE_CHECKED ==
    << <<"@typescript-eslint/naming_convention", "Off">> >>
TYPESCRIPT_ALL ==
    << <<"@typescript-eslint/array-type", "Error">>,
       <<"@typescript-eslint/naming_convention", "Error">> >>
UNICORN_RECOMMENDED ==
    << <<"unicorn/filename-case", "Error">>, <<"unicorn/string-content", "Off">> >>
UNICORN_NON_RECOMMENDED == << <<"unicorn/string-content", "Error">> >>

-----------------------------------------------------------------------------
(* ConfigData (eslint.rs 123-249).                                         *)

EmptyMap == [k \in {} |-> FALSE]

\* GlobalConf (eslint.rs 251-255) and its qualifiers (eslint.rs 278-285).
GlobalConfQualifiers == {"Off", "Readable", "Readonly", "Writable", "Writeable"}
Flag(b) == [variant |-> "Flag", flag |-> b, qualifier |-> "Off"]
Qualifier(q) == [variant |-> "Qualifier", flag |-> FALSE, qualifier |-> q]

\* OverrideConfigData::default() (eslint.rs 287-298).
OverrideConfigData_default ==
    [extends |-> <<>>, env |-> EmptyMap, globals |-> EmptyMap,
     excluded_files |-> <<>>, files |-> <<>>, rules |-> {}]

\* ConfigData::default()
ConfigData_default ==
    [extends |-> <<>>, env |-> EmptyMap, globals |-> EmptyMap,
     ignore_patterns |-> <<>>, rules |-> {}, overrides |-> <<>>]

\* Presets of the match of from_preset whose tables hold no rule of
\* ModelledNames: their rule set, restricted to the modelled names, is empty.
OtherPresets ==
    {"plugin:barrel/recommended", "plugin:import/errors", "plugin:import/recommended",
     "plugin:import/warnings", "plugin:jest/recommended", "plugin:jest/style",
     "plugin:jest/all", "plugin:react-hooks/recommended",
     "plugin:@typescript-eslint/base", "plugin:@typescript-eslint/recommended",
     "plugin:@typescript-eslint/recommended-type-checked-only",
     "plugin:@typescript-eslint/recommended-type-checked",
     "plugin:@typescript-eslint/strict",
     "plugin:@typescript-eslint/strict-type-checked-only",
     "plugin:@typescript-eslint/strict-type-checked",
     "plugin:@typescript-eslint/stylistic-type-checked-only"}

\* The rule set of a preset (the match of from_preset, eslint.rs 137-220);
\* None for a name the match does not list.
preset_rules(name) ==
    CASE name = "eslint:recommended" -> Some(Rules_from_iter(ESLINT_RECOMMENDED))
      [] name = "eslint:all" -> Some(Rules_from_iter(ESLINT_ALL))
      [] name \in {"plugin:jsx-a11y/recommended", "plugin:jsx-a11y/strict"} ->
             Some(Rules_from_iter(JSXA11Y_STRICT))
      [] name = "plugin:react/jsx-runtime" -> Some(Rules_from_iter(REACT_JSX_RUNTIME))
      [] name \in {"plugin:react/recommended", "plugin:react/all"} ->
             Some(Rules_from_iter(REACT_RECOMMENDED))
      [] name \in {"plugin:@typescript-eslint/stylistic",
                   "plugin:@typescript-eslint/stylistic-type-checked"} ->
             Some(Rules_from_iter(TYPESCRIPT_STYLISTIC))
      [] name = "plugin:@typescript-eslint/disable-type-checked" ->
             Some(Rules_from_iter(TYPESCRIPT_DISABLE_TYPE_CHECKED))
      [] name = "plugin:@typescript-eslint/all" -> Some(Rules_from_iter(TYPESCRIPT_ALL))
      [] name = "plugin:unicorn/recommeded" -> Some(Rules_from_iter(UNICORN_RECOMMENDED))
      [] name = "plugin:unicorn/all" ->
             Some(Rules_from_iter(UNICORN_RECOMMENDED \o UNICORN_NON_RECOMMENDED))
      [] name \in OtherPresets -> Some(Rules_from_iter(<<>>))
      [] OTHER -> None

\* ConfigData::from_preset (eslint.rs 136-225).
from_preset(name) ==
    Only({ IF rules.some THEN Some([ConfigData_default EXCEPT !.rules = rules.val])
           ELSE None
           : rules \in {preset_rules(name)} })

\* Shorthand::merge_with (eslint.rs 302-306): Vec::append.
Shorthand_merge_with(self, other) == self \o other

\* A faulty extend that keeps the value of a key already present.
HashMap_extend_keep(self, other) ==
    [k \in DOMAIN self \cup DOMAIN other |->
        IF k \in DOMAIN self THEN self[k] ELSE other[k]]

\* FxHashMap::extend: the entries of `other` are inserted, an entry of a key
\* already present takes the value of `other`.
HashMap_extend(self, other) ==
    [k \in DOMAIN self \cup DOMAIN other |->
        IF k \in DOMAIN other THEN other[k] ELSE self[k]]

\* ConfigData::merge_with (eslint.rs 240-249).
ConfigData_merge_with(self, other) ==
    [extends |-> Shorthand_merge_with(self.extends, other.extends),
     env |-> HashMap_extend(self.env, other.env),
     globals |-> HashMap_extend(self.globals, other.globals),
     ignore_patterns |-> Shorthand_merge_with(self.ignore_patterns, other.ignore_patterns),
     rules |-> Rules_merge_with(self.rules, other.rules),
     overrides |-> self.overrides \o other.overrides]

\* A faulty filter_map that stops at the first name from_preset does not
\* know.
RECURSIVE filter_map_from_preset_stop(_)
filter_map_from_preset_stop(extends) ==
    IF extends = <<>> THEN <<>>
    ELSE IF ~from_preset(Head(extends)).some THEN <<>>
    ELSE <<from_preset(Head(extends)).val>> \o filter_map_from_preset_stop(Tail(extends))

\* filter_map(|preset| Self::from_preset(preset)).collect() (eslint.rs
\* 228-233): the configurations of the known presets, in the order of the
\* list.
RECURSIVE filter_map_from_preset(_)
filter_map_from_preset(extends) ==
    IF extends = <<>> THEN <<>>
    ELSE Only({ (IF ext.some THEN <<ext.val>> ELSE <<>>) \o rest
                : ext \in {from_preset(Head(extends))},
                  rest \in {filter_map_from_preset(Tail(extends))} })

\* for ext in extensions { self.merge_with(ext) } (eslint.rs 235-237).
RECURSIVE merge_all(_, _)
merge_all(self, extensions) ==
    IF extensions = <<>> THEN self
    ELSE Only({ merge_all(merged, Tail(extensions))
                : merged \in {ConfigData_merge_with(self, Head(extensions))} })

\* A faulty resolve_extends that starts from the presets and merges the
\* configuration of the user into them.
resolve_extends_presets_first(self) ==
    LET extensions == filter_map_from_preset(self.extends)
    IN  IF extensions = <<>> THEN [self EXCEPT !.extends = <<>>]
        ELSE ConfigData_merge_with(merge_all(Head(extensions), Tail(extensions)),
                                   [self EXCEPT !.extends = <<>>])

\* A faulty resolve_extends that leaves `extends` as it was.
resolve_extends_keep_extends(self) ==
    merge_all(self, filter_map_from_preset(self.extends))

\* A faulty resolve_extends that resolves the `extends` of the override
\* blocks as well.
resolve_extends_in_overrides(self) ==
    [merge_all([self EXCEPT !.extends = <<>>], filter_map_from_preset(self.extends))
        EXCEPT !.overrides =
            [i \in DOMAIN self.overrides |->
                [self.overrides[i] EXCEPT
                    !.extends = <<>>,
                    !.rules = merge_all([ConfigData_default EXCEPT !.rules = self.overrides[i].rules],
                                        filter_map_from_preset(self.overrides[i].extends)).rules]]]

\* ConfigData::resolve_extends (eslint.rs 227-238).
resolve_extends(self) ==
    Only({ merge_all([self EXCEPT !.extends = <<>>], extensions)
           : extensions \in {filter_map_from_preset(self.extends)} })


-----------------------------------------------------------------------------
(* Loading a configuration file (eslint.rs 63-118, 123-134, 300-337).      *)

\* A JSON object with these members; a member is a key and a value.
Object(members) == [type |-> "MAP", num |-> 0, str |-> "", items |-> members]

\* Vec<String>::deserialize of an ARRAY: the elements that are text, in
\* order, and one diagnostic for each of the others.
RECURSIVE Vec_String_deserialize(_)
Vec_String_deserialize(items) ==
    IF items = <<>> THEN [res |-> Some(<<>>), diags |-> 0]
    ELSE Only({ [res |-> Some((IF r.res.some THEN <<r.res.val>> ELSE <<>>) \o rest.res.val),
                 diags |-> r.diags + rest.diags]
                : r \in {String_deserialize(Head(items))},
                  rest \in {Vec_String_deserialize(Tail(items))} })

\* Shorthand<String>::deserialize (eslint.rs 321-337): an array of texts, or
\* one text taken as the list of that text.
Shorthand_deserialize(value) ==
    IF is_type(value, "ARRAY") THEN Vec_String_deserialize(flatten(value.items))
    ELSE Only({ [res |-> IF r.res.some THEN Some(<<r.res.val>>) ELSE None, diags |-> r.diags]
                : r \in {String_deserialize(value)} })

\* Rules::deserialize of a value (eslint.rs 526-600): a MAP is visited, a
\* value of another type is None with one diagnostic.
Rules_deserialize_value(value) ==
    IF is_type(value, "MAP") THEN Rules_deserialize(value.items)
    ELSE [res |-> None, diags |-> 1]

\* One member of the object of a ConfigData (the derive of eslint.rs
\* 123-134 with unknown_fields = "allow"): a known field that decodes
\* replaces the field, one that does not decode leaves it, an unknown key is
\* passed over.
ConfigData_visit_member(result, diags, m) ==
    CASE m.key.str = "extends" ->
             Only({ [result |-> IF r.res.some THEN [result EXCEPT !.extends = r.res.val]
                                ELSE result,
                     diags |-> diags + r.diags]
                    : r \in {Shorthand_deserialize(m.value)} })
      [] m.key.str = "rules" ->
             Only({ [result |-> IF r.res.some THEN [result EXCEPT !.rules = r.res.val]
                                ELSE result,
                     diags |-> diags + r.diags]
                    : r \in {Rules_deserialize_value(m.value)} })
      [] OTHER -> [result |-> result, diags |-> diags]

RECURSIVE ConfigData_visit_map(_, _, _)
ConfigData_visit_map(result, diags, members) ==
    IF members = <<>> THEN [res |-> Some(result), diags |-> diags]
    ELSE Only({ ConfigData_visit_map(step.result, step.diags, Tail(members))
                : step \in {ConfigData_visit_member(result, diags, Head(members))} })

\* deserialize_from_json_str::<ConfigData>(content).consume(): the
\* ConfigData of an object, from ConfigData::default(); a content that is no
\* object (or no JSON value at all) is None with one diagnostic.
ConfigData_deserialize(content) ==
    IF is_type(content, "MAP") THEN ConfigData_visit_map(ConfigData_default, 0, content.items)
    ELSE [res |-> None, diags |-> 1]

\* Result<ConfigData, CliDiagnostic>
Ok(x) == [ok |-> TRUE, val |-> x, reason |-> ""]
Err(reason) == [ok |-> FALSE, val |-> ConfigData_default, reason |-> reason]

\* A faulty load_config that fails when some diagnostic was emitted.
load_config_strict(extension, content) ==
    IF extension = None THEN [result |-> Err("no extension"), printed |-> 0]
    ELSE IF extension.val \notin {"json", "js", "cjs"}
    THEN [result |-> Err("unsupported extension"), printed |-> 0]
    ELSE LET r == ConfigData_deserialize(content)
         IN  [result |-> IF r.res.some /\ r.diags = 0 THEN Ok(r.res.val)
                         ELSE Err("could not deserialize"),
              printed |-> r.diags]

\* load_config (eslint.rs 63-118) of a path with this extension
\* (path.extension()) whose content, read from the file or printed by node,
\* is `content`; I/O failures aside. `printed` is the number of diagnostics
\* written to the console.
load_config(extension, content) ==
    IF extension = None THEN [result |-> Err("no extension"), printed |-> 0]
    ELSE IF extension.val \notin {"json", "js", "cjs"}
    THEN [result |-> Err("unsupported extension"), printed |-> 0]
    ELSE Only({ [result |-> IF r.res.some THEN Ok(r.res.val)
                            ELSE Err("could not deserialize"),
                 printed |-> r.diags]
                : r \in {ConfigData_deserialize(content)} })

-----------------------------------------------------------------------------
(* Migration to the target configuration (eslint_to_biome.rs).             *)

\* A faulty is_enabled that looks at the flag only.
GlobalConf_is_enabled_flag_only(global_conf) ==
    IF global_conf.variant = "Flag" THEN global_conf.flag ELSE TRUE

\* GlobalConf::is_enabled (eslint.rs 256-263).
GlobalConf_is_enabled(global_conf) ==
    IF global_conf.variant = "Flag" THEN global_conf.flag
    ELSE global_conf.qualifier # "Off"

\* RuleConf::into_vec (eslint.rs 357-363).
RuleConf_into_vec(conf) ==
    CASE conf.variant = "Severity" -> <<>>
      [] conf.variant \in {"Option", "Options"} -> <<conf.options[1]>>
      [] conf.variant = "Spread" -> conf.options

\* RuleConf::option_or_default (eslint.rs 366-373); T::default() is the
\* option `default` of type T.
RuleConf_option_or_default(T, conf) ==
    IF conf.variant = "Option" THEN conf.options[1]
    ELSE [variant |-> T, of |-> "default"]

\* NoRestrictedGlobal::into_name (eslint.rs 608-613): the name itself, or
\* the `name` field of the object.
NoRestrictedGlobal_into_name(global) ==
    IF global.variant = "Plain" THEN global.of
    ELSE [field |-> "name", of |-> global.of]

\* A faulty conversion that exchanges warn and error.
RulePlainConfiguration_from_swapped(severity) ==
    CASE severity = "Off" -> "off"
      [] severity = "Warn" -> "error"
      [] severity = "Error" -> "warn"

\* From<Severity> for RulePlainConfiguration (eslint.rs 469-477).
RulePlainConfiguration_from(severity) ==
    CASE severity = "Off" -> "off"
      [] severity = "Warn" -> "warn"
      [] severity = "Error" -> "error"

\* MigrationOptions and MigrationResults (eslint_to_biome.rs 7-25).
MigrationOptions == [include_inspired : BOOLEAN, include_nursery : BOOLEAN]
MigrationResults_default ==
    [migrated_rules |-> <<>>, unsupported_rules |-> <<>>,
     inspired_rules |-> <<>>, nursery_rules |-> <<>>]

\* The name-to-target-rule table of the generated migrate_eslint_any_rule.
\* A table is a function from source rule names to one of these tags; a name
\* outside its domain, or tagged "absent", has no target rule.
Tags == {"absent", "plain", "inspired", "nursery"}
TagOf(table, name) == IF name \in DOMAIN table THEN table[name] ELSE "absent"

\* The typescript-eslint extension rules that replace a base rule of the
\* source linter: the presets turn the base rule off next to them
\* (eslint_typescript.rs 250-304), and both names have the same target rule.
BaseRuleOf(name) ==
    CASE name = "@typescript-eslint/no-unused-vars" -> "no-unused-vars"
      [] name = "@typescript-eslint/no-loss-of-precision" -> "no-loss-of-precision"
      [] OTHER -> name

\* The target rule of a source rule: the field of the target rule set that
\* the code writes for the five rules with translated options
\* (eslint_to_biome.rs 122-123, 136-137, 150-151, 167-168, 178-179), and
\* one target rule per base rule otherwise.
TargetOf(name) ==
    CASE name = "no-restricted-globals" -> [group |-> "style", rule |-> "no_restricted_globals"]
      [] name = "jsx-a11y/aria-role" -> [group |-> "a11y", rule |-> "use_valid_aria_role"]
      [] name = "@typescript-eslint/array-type" ->
             [group |-> "style", rule |-> "use_consistent_array_type"]
      [] name = "@typescript-eslint/naming_convention" ->
             [group |-> "style", rule |-> "use_naming_convention"]
      [] name = "unicorn/filename-case" ->
             [group |-> "style", rule |-> "use_filenaming_convention"]
      [] OTHER -> [group |-> "lint", rule |-> BaseRuleOf(name)]

\* RuleConfiguration::Plain(level) and ::WithOptions(level, options).
RuleConfiguration_Plain(level) == [level |-> level, options |-> None]
RuleConfiguration_WithOptions(level, options) == [level |-> level, options |-> Some(options)]

\* group.rule = Some(configuration)
Rules_set(rules, target, configuration) ==
    [t \in DOMAIN rules \cup {target} |-> IF t = target THEN configuration ELSE rules[t]]

\* A faulty migrate_eslint_any_rule that writes the severity of an excluded
\* inspired or nursery rule before it reports it.
migrate_eslint_any_rule_eager(rules, name, severity, opts, results, table) ==
    LET tag == TagOf(table, name)
        written == Rules_set(rules, TargetOf(name),
                       RuleConfiguration_Plain(RulePlainConfiguration_from(severity)))
    IN  CASE tag = "absent" ->
                 [ok |-> FALSE, rules |-> rules,
                  results |-> [results EXCEPT !.unsupported_rules = Append(@, name)]]
          [] tag = "inspired" /\ ~opts.include_inspired ->
                 [ok |-> FALSE, rules |-> written,
                  results |-> [results EXCEPT !.inspired_rules = Append(@, name)]]
          [] tag = "nursery" /\ ~opts.include_nursery ->
                 [ok |-> FALSE, rules |-> written,
                  results |-> [results EXCEPT !.nursery_rules = Append(@, name)]]
          [] OTHER ->
                 [ok |-> TRUE, rules |-> written,
                  results |-> [results EXCEPT !.migrated_rules = Append(@, name)]]

\* migrate_eslint_any_rule (generated; called at eslint_to_biome.rs 116-177):
\* looks the name up in the table; a rule with no target is reported as
\* unsupported, an inspired or nursery rule that the options exclude is
\* reported in its bucket, and both return false without writing; any other
\* rule gets its level set in the target rule set, is reported as migrated
\* and returns true.
migrate_eslint_any_rule(rules, name, severity, opts, results, table) ==
    Only({ CASE tag = "absent" ->
                    [ok |-> FALSE, rules |-> rules,
                     results |-> [results EXCEPT !.unsupported_rules = Append(@, name)]]
             [] tag = "inspired" /\ ~opts.include_inspired ->
                    [ok |-> FALSE, rules |-> rules,
                     results |-> [results EXCEPT !.inspired_rules = Append(@, name)]]
             [] tag = "nursery" /\ ~opts.include_nursery ->
                    [ok |-> FALSE, rules |-> rules,
                     results |-> [results EXCEPT !.nursery_rules = Append(@, name)]]
             [] OTHER ->
                    [ok |-> TRUE,
                     rules |-> Rules_set(rules, TargetOf(name),
                                   IF TargetOf(name) \in DOMAIN rules
                                   THEN [rules[TargetOf(name)] EXCEPT
                                            !.level = RulePlainConfiguration_from(severity)]
                                   ELSE RuleConfiguration_Plain(
                                            RulePlainConfiguration_from(severity))),
                     results |-> [results EXCEPT !.migrated_rules = Append(@, name)]]
           : tag \in {TagOf(table, name)} })

\* The options the hand-written arm of migrate_eslint_rule writes for a rule
\* that is not Rule::Any (eslint_to_biome.rs 118-186): None when the arm
\* writes nothing. A translator (`into()`) is the record of its name and
\* its argument.
translated_options(rule) ==
    CASE rule.variant = "NoRestrictedGlobals" ->
             Some([translator |-> "RestrictedGlobalsOptions",
                   from |-> [i \in DOMAIN RuleConf_into_vec(rule.conf) |->
                                NoRestrictedGlobal_into_name(RuleConf_into_vec(rule.conf)[i])]])
      [] rule.variant = "Jsxa11yArioaRoles" ->
             IF rule.conf.variant = "Option"
             THEN Some([translator |-> "ValidAriaRoleOptions", from |-> rule.conf.options[1]])
             ELSE None
      [] rule.variant = "TypeScriptArrayType" ->
             IF rule.conf.variant = "Option"
             THEN Some([translator |-> "ConsistentArrayTypeOptions",
                        from |-> rule.conf.options[1]])
             ELSE None
      [] rule.variant = "TypeScriptNamingConvention" ->
             Some([translator |-> "NamingConventionOptions::override_default",
                   from |-> RuleConf_into_vec(rule.conf)])
      [] rule.variant = "UnicornFilenameCase" ->
             Some([translator |-> "FilenamingConventionOptions",
                   from |-> RuleConf_option_or_default("FilenameCaseOptions", rule.conf)])
      [] OTHER -> None

\* A faulty migrate_eslint_rule that writes the translated options whatever
\* migrate_eslint_any_rule returns.
migrate_eslint_rule_unguarded(rules, rule, opts, results, table) ==
    LET r == migrate_eslint_any_rule(rules, Rule_name(rule), Rule_severity(rule),
                                     opts, results, table)
    IN  IF rule.variant # "Any" /\ translated_options(rule).some
        THEN [r EXCEPT !.rules =
                 Rules_set(r.rules, TargetOf(Rule_name(rule)),
                     RuleConfiguration_WithOptions(
                         RulePlainConfiguration_from(Rule_severity(rule)),
                         translated_options(rule).val))]
        ELSE r

\* migrate_eslint_rule (eslint_to_biome.rs 107-188).
migrate_eslint_rule(rules, rule, opts, results, table) ==
    Only({ IF rule.variant # "Any" /\ r.ok /\ translated_options(rule).some
           THEN [r EXCEPT !.rules =
                    Rules_set(r.rules, TargetOf(Rule_name(rule)),
                        RuleConfiguration_WithOptions(
                            RulePlainConfiguration_from(Rule_severity(rule)),
                            translated_options(rule).val))]
           ELSE r
           : r \in {migrate_eslint_any_rule(rules, Rule_name(rule), Rule_severity(rule),
                                            opts, results, table)} })

\* The loop of Rules::into_biome_rules (eslint_to_biome.rs 97-99) over the
\* rules in the order `order` in which the set is iterated.
RECURSIVE migrate_all(_, _, _, _, _)
migrate_all(rules, order, opts, results, table) ==
    IF order = <<>> THEN [rules |-> rules, results |-> results]
    ELSE Only({ migrate_all(r.rules, Tail(order), opts, r.results, table)
                : r \in {migrate_eslint_rule(rules, Head(order), opts, results, table)} })

\* Rules::into_biome_rules (eslint_to_biome.rs 90-102), from an empty target
\* rule set.
into_biome_rules(order, opts, results, table) ==
    migrate_all(EmptyMap, order, opts, results, table)

\* The orders in which a set can be iterated.
Orders(set) ==
    {order \in [1..Cardinality(set) -> set] : \A e \in set : \E i \in DOMAIN order : order[i] = e}

\* collect::<StringSet>() of a list of strings.
StringSet(list) == {list[i] : i \in DOMAIN list}

\* A faulty loop body that migrates the rules of a block with a report of
\* its own, which is then dropped.
override_pattern_unreported(override_elt, order, opts, results, table) ==
    LET migrated == into_biome_rules(order, opts, MigrationResults_default, table)
    IN  [pattern |->
            [javascript |-> IF override_elt.globals # EmptyMap
                            THEN Some([globals |-> DOMAIN override_elt.globals])
                            ELSE None,
             ignore |-> IF override_elt.files # <<>>
                        THEN Some(StringSet(override_elt.files))
                        ELSE IF override_elt.excluded_files # <<>>
                        THEN Some(StringSet(override_elt.excluded_files))
                        ELSE None,
             include |-> None,
             linter |-> IF override_elt.rules # {}
                        THEN Some([rules |-> Some(migrated.rules)])
                        ELSE None],
         results |-> results]

\* The body of the loop over the override blocks (eslint_to_biome.rs 58-82):
\* the OverridePattern of one block, and the report after it. `include` is
\* a field of OverridePattern::default() that the body does not assign.
override_pattern(override_elt, order, opts, results, table) ==
    Only({ [pattern |->
               [javascript |-> IF override_elt.globals # EmptyMap
                               THEN Some([globals |-> DOMAIN override_elt.globals])
                               ELSE None,
                ignore |-> IF override_elt.files # <<>>
                           THEN Some(StringSet(override_elt.files))
                           ELSE IF override_elt.excluded_files # <<>>
                           THEN Some(StringSet(override_elt.excluded_files))
                           ELSE None,
                include |-> None,
                linter |-> IF override_elt.rules # {}
                           THEN Some([rules |-> Some(migrated.rules)])
                           ELSE None],
            results |-> IF override_elt.rules # {} THEN migrated.results ELSE results]
           : migrated \in {into_biome_rules(order, opts, results, table)} })

\* The loop over the override blocks, from the patterns and the report
\* gathered so far; orders[i] is the order in which the rules of block i
\* are iterated.
RECURSIVE migrate_overrides(_, _, _, _, _, _)
migrate_overrides(patterns, overrides, orders, opts, results, table) ==
    IF overrides = <<>> THEN [patterns |-> patterns, results |-> results]
    ELSE Only({ migrate_overrides(Append(patterns, r.pattern), Tail(overrides),
                                  Tail(orders), opts, r.results, table)
                : r \in {override_pattern(Head(overrides), Head(orders), opts,
                                          results, table)} })

\* A faulty into_biome_config that migrates the rules of the override blocks
\* into the base rule set before the base rules.
into_biome_config_flattened(self, opts, table, order, orders) ==
    LET flat == migrate_all(EmptyMap,
                    IF orders = <<>> THEN <<>> ELSE Head(orders),
                    opts, MigrationResults_default, table)
        base == migrate_all(flat.rules, order, opts, flat.results, table)
        over == migrate_overrides(<<>>, self.overrides, orders, opts, base.results, table)
    IN  [config |->
            [javascript |-> IF self.globals # EmptyMap
                            THEN Some([globals |-> {name \in DOMAIN self.globals :
                                          GlobalConf_is_enabled(self.globals[name])}])
                            ELSE None,
             linter |-> Some([ignore |-> IF self.ignore_patterns # <<>>
                                         THEN Some(StringSet(self.ignore_patterns))
                                         ELSE None,
                              rules |-> IF self.rules # {} THEN Some(base.rules) ELSE None]),
             overrides |-> IF self.overrides # <<>> THEN Some(over.patterns) ELSE None],
         results |-> over.results]

\* ConfigData::into_biome_config (eslint_to_biome.rs 28-87). `order` is the
\* order in which the base rule set is iterated, `orders` those of the
\* override blocks.
into_biome_config(self, opts, table, order, orders) ==
    Only({ Only({ [config |->
                     [javascript |->
                          IF self.globals # EmptyMap
                          THEN Some([globals |-> {name \in DOMAIN self.globals :
                                        GlobalConf_is_enabled(self.globals[name])}])
                          ELSE None,
                      linter |->
                          Some([ignore |-> IF self.ignore_patterns # <<>>
                                           THEN Some(StringSet(self.ignore_patterns))
                                           ELSE None,
                                rules |-> IF self.rules # {} THEN Some(base.rules)
                                          ELSE None]),
                      overrides |-> IF self.overrides # <<>> THEN Some(over.patterns)
                                    ELSE None],
                   results |-> over.results]
                  : over \in {migrate_overrides(<<>>, self.overrides, orders, opts,
                                                base.results, table)} })
           : base \in {IF self.rules # {}
                       THEN into_biome_rules(order, opts, MigrationResults_default, table)
                       ELSE [rules |-> EmptyMap, results |-> MigrationResults_default]} })

\* The orders in which the rule sets of the override blocks can be iterated.
OverrideOrders(overrides) ==
    {orders \in [DOMAIN overrides -> UNION {Orders(overrides[i].rules) : i \in DOMAIN overrides}] :
        \A i \in DOMAIN overrides : orders[i] \in Orders(overrides[i].rules)}

\* The names of the rules of a configuration, base and override blocks.
ConfigRuleNames(self) ==
    Rules_names(self.rules)
    \cup UNION {Rules_names(self.overrides[i].rules) : i \in DOMAIN self.overrides}

-----------------------------------------------------------------------------
(* Translators of rule options (eslint_typescript.rs, eslint_unicorn.rs).  *)

\* NamingConventionSelection (eslint_typescript.rs 126-139), with the two
\* fields the translator reads: the selector list and the format list.
NamingConventionSelection(selector, format) == [selector |-> selector, format |-> format]

\* NamingConventionOptions::default() (eslint_typescript.rs 52-87).
NamingConventionOptions_default ==
    <<NamingConventionSelection(<<"Default">>, Some(<<"Camel">>)),
      NamingConventionSelection(<<"Import">>, Some(<<"Camel", "Pascal">>)),
      NamingConventionSelection(<<"Variable">>, Some(<<"Camel", "Upper">>)),
      NamingConventionSelection(<<"TypeLike">>, Some(<<"Pascal">>))>>

\* NamingConventionOptions::override_default (eslint_typescript.rs 42-50).
override_default(overrides) == NamingConventionOptions_default \o overrides

\* The loop of the translator (eslint_typescript.rs 91-99) from the value of
\* enum_member_format so far: every selection that contains EnumMember
\* assigns it, with the first entry of its format list or with None.
RECURSIVE enum_member_format(_, _)
enum_member_format(format, selections) ==
    IF selections = <<>> THEN format
    ELSE enum_member_format(
             IF \E i \in DOMAIN Head(selections).selector :
                    Head(selections).selector[i] = "EnumMember"
             THEN IF Head(selections).format.some /\ Head(selections).format.val # <<>>
                  THEN Some(Head(Head(selections).format.val))
                  ELSE None
             ELSE format,
             Tail(selections))

\* From<NamingConventionOptions> for use_naming_convention::
\* NamingConventionOptions (eslint_typescript.rs 89-125); "default" is
\* EnumMemberCase::default().
NamingConventionOptions_into(val) ==
    Only({ [strict_case |-> format \in {Some("StrictCamel"), Some("StrictPascal")},
            require_ascii |-> FALSE,
            enum_member_case |->
                CASE format \in {Some("Camel"), Some("StrictCamel")} -> "Camel"
                  [] format \in {Some("Pascal"), Some("StrictPascal")} -> "Pascal"
                  [] format = Some("Upper") -> "Constant"
                  [] OTHER -> "default"]
           : format \in {enum_member_format(None, val)} })

\* From<FilenameCase> for use_filenaming_convention::FilenameCase
\* (eslint_unicorn.rs 42-51).
FilenameCase_into(val) ==
    CASE val = "Kebab" -> "kebab-case"
      [] val = "Camel" -> "camelCase"
      [] val = "Snake" -> "snake_case"
      [] val = "Pascal" -> "PascalCase"

\* A faulty conversion of the bitset that never yields a set.
FilenameCases_into_unset(val) == None

\* From<FilenameCases> for Option<use_filenaming_convention::FilenameCases>
\* (eslint_unicorn.rs 59-80); FilenameCases::from_iter makes the set of the
\* cases pushed.
FilenameCases_into(val) ==
    Only({ IF cases = {} THEN None ELSE Some(cases)
           : cases \in {(IF val.kebab_case THEN {FilenameCase_into("Kebab")} ELSE {})
                        \cup (IF val.camel_case THEN {FilenameCase_into("Camel")} ELSE {})
                        \cup (IF val.snake_case THEN {FilenameCase_into("Snake")} ELSE {})
                        \cup (IF val.pascal_case THEN {FilenameCase_into("Pascal")} ELSE {})} })

\* From<FilenameCaseOptions> for use_filenaming_convention::
\* FilenamingConventionOptions (eslint_unicorn.rs 18-29).
FilenameCaseOptions_into(val) ==
    Only({ [strict_case |-> TRUE,
            require_ascii |-> TRUE,
            filename_cases |-> IF filename_cases.some THEN filename_cases.val
                               ELSE {FilenameCase_into(val.case)}]
           : filename_cases \in {FilenameCases_into(val.cases)} })

-----------------------------------------------------------------------------
(* Inputs.                                                                 *)

\* All sequences over S of length at most n.
SeqsUpTo(S, n) == UNION {[1..k -> S] : k \in 0..n}

\* Scalars a severity is decoded from: numbers (one negative, one out of
\* range), strings (one that names no severity) and values of another type.
ScalarValues ==
    {Num(n) : n \in -1..3} \cup {Str(s) : s \in {"off", "warn", "error", "event"}}
    \cup {Bool(TRUE), Map("o1"), Array(<<>>)}

\* Elements of a rule-value array.
Elements ==
    {Num(1), Num(3), Str("error"), Str("event"), Map("o1"), Map("o2"), Bool(TRUE),
     Missing}

\* Rule values: scalars, and arrays of at most MaxArrayLen elements.
RuleValues == ScalarValues \cup {Array(s) : s \in SeqsUpTo(Elements, MaxArrayLen)}

\* The secondary option types RuleConf::deserialize is applied with: no rule
\* of the program declares one (Unit); the generic code admits one.
SecondaryTypes == {Unit, "GlobalWithMessage"}

\* Keys and values of a decoded rule map.
MapKeys ==
    {"no-var", "no-restricted-globals", "unicorn/filename-case",
     "jsx-a11y/aria-role", "@typescript-eslint/array-type",
     "@typescript-eslint/naming-convention", "@typescript-eslint/naming_convention"}
MapValues ==
    {Str("off"), Num(3), Array(<<>>), Array(<<Missing>>), Array(<<Str("warn")>>),
     Array(<<Str("event")>>), Array(<<Num(2), Map("o1")>>),
     Array(<<Str("error"), Map("o1"), Num(3)>>)}
Members == {[key |-> Str(k), value |-> v] : k \in MapKeys, v \in MapValues}
MissingMember == [key |-> Missing, value |-> Missing]

\* Names of `extends` and members of `rules` of a loaded configuration.
ExtendsNames ==
    {"eslint:recommended", "eslint:all", "plugin:react/recommended",
     "plugin:react/jsx-runtime", "plugin:@typescript-eslint/all",
     "plugin:prettier/recommended"}
\* Presets built by from_preset: those names and a preset of two chained
\* tables.
PresetNames == ExtendsNames \cup {"plugin:unicorn/all"}
\* Presets whose configuration is merged by a direct merge_with.
MergePresets ==
    {"eslint:all", "plugin:react/jsx-runtime", "plugin:@typescript-eslint/all"}
ConfigMembers ==
    {[key |-> Str(k), value |-> v] :
        k \in {"no-var", "react/react-in-jsx-scope",
               "@typescript-eslint/naming-convention"},
        v \in {Str("off"), Array(<<Str("warn")>>)}}

\* A configuration file with every field: names of `extends` (one of them
\* unknown), members of `rules`, `env`, `globals`, `ignorePatterns` and
\* override blocks (one with its own `extends`).
DataExtends ==
    {"plugin:react/recommended", "plugin:react/jsx-runtime", "plugin:prettier/recommended"}
DataMembers ==
    {<<>>, <<[key |-> Str("react/react-in-jsx-scope"), value |-> Str("warn")]>>}
DataEnvs == {EmptyMap, "browser" :> TRUE}
DataGlobals == {EmptyMap, "var1" :> Qualifier("Writable")}
DataPatterns == {<<>>, <<"dist">>}
DataOverrides ==
    {[OverrideConfigData_default EXCEPT
         !.files = <<"bin/*.js">>,
         !.rules = Rules_deserialize(<<[key |-> Str("eqeqeq"), value |-> Str("off")]>>).res.val],
     [OverrideConfigData_default EXCEPT
         !.extends = <<"eslint:all">>,
         !.env = "node" :> TRUE,
         !.globals = "var2" :> Flag(FALSE),
         !.files = <<"*.ts">>,
         !.excluded_files = <<"*.d.ts">>]}

\* Configurations merged into a loaded one.
OtherConfigs ==
    {[extends |-> <<"plugin:react/jsx-runtime">>,
      env |-> ("browser" :> FALSE) @@ ("node" :> TRUE),
      globals |-> ("var1" :> Qualifier("Off")) @@ ("var3" :> Flag(TRUE)),
      ignore_patterns |-> <<"build">>,
      rules |-> Rules_from_iter(ESLINT_ALL),
      overrides |-> <<[OverrideConfigData_default EXCEPT !.files = <<"test/*.js">>]>>],
     [ConfigData_default EXCEPT !.env = "es6" :> TRUE, !.ignore_patterns = <<"dist">>]}

\* A configuration that is migrated: members of `rules` (a rule without
\* options, a base rule and its typescript-eslint extension rule at another
\* severity, and the five rules with translated options, two of them with
\* elements after the option), `globals` with every
\* GlobalConf, `ignorePatterns`, and override blocks with rules, globs and
\* globals. The other fields vary over configurations of at most one rule.
MigMemberList ==
    <<[key |-> Str("eqeqeq"), value |-> Str("warn")],
      [key |-> Str("no-unused-vars"), value |-> Str("off")],
      [key |-> Str("@typescript-eslint/no-unused-vars"), value |-> Str("error")],
      [key |-> Str("no-restricted-globals"),
       value |-> Array(<<Str("error"), Str("event"), Map("o1")>>)],
      [key |-> Str("jsx-a11y/aria-role"), value |-> Array(<<Num(2), Map("o1")>>)],
      [key |-> Str("@typescript-eslint/array-type"), value |-> Str("error")],
      [key |-> Str("@typescript-eslint/naming-convention"),
       value |-> Array(<<Str("error"), Map("o1"), Map("o2")>>)],
      [key |-> Str("unicorn/filename-case"), value |-> Array(<<Str("warn"), Map("o1")>>)],
      [key |-> Str("unicorn/filename-case"),
       value |-> Array(<<Str("error"), Map("o1"), Map("o2")>>)],
      [key |-> Str("@typescript-eslint/array-type"),
       value |-> Array(<<Str("error"), Map("o1"), Num(3)>>)]>>
MigMembers == {MigMemberList[i] : i \in DOMAIN MigMemberList}
\* The rules of a file become a set: the members are taken in the order of
\* the list above, each at most once.
Increasing(members) ==
    \A i, j \in DOMAIN members :
        i < j => \E k, l \in DOMAIN MigMemberList :
                     k < l /\ MigMemberList[k] = members[i] /\ MigMemberList[l] = members[j]
MigGlobals ==
    {EmptyMap,
     "var3" :> Qualifier("Off"),
     ("var1" :> Qualifier("Writable")) @@ ("var2" :> Qualifier("Readonly"))
         @@ ("var3" :> Qualifier("Off")),
     ("a" :> Flag(TRUE)) @@ ("b" :> Flag(FALSE)) @@ ("c" :> Qualifier("Readable"))
         @@ ("d" :> Qualifier("Writeable"))}
MigOverrides ==
    {[OverrideConfigData_default EXCEPT
         !.files = <<"bin/*.js">>,
         !.rules = Rules_deserialize(<<[key |-> Str("eqeqeq"), value |-> Str("off")]>>).res.val],
     [OverrideConfigData_default EXCEPT
         !.globals = ("var2" :> Flag(FALSE)) @@ ("var4" :> Qualifier("Writable")),
         !.files = <<"*.ts">>,
         !.excluded_files = <<"*.d.ts">>],
     [OverrideConfigData_default EXCEPT
         !.excluded_files = <<"vendor/*">>,
         !.rules = Rules_deserialize(
                       <<[key |-> Str("no-restricted-globals"),
                          value |-> Array(<<Str("error"), Str("event")>>)]>>).res.val]}
MigrateInputs ==
    {input \in [members : SeqsUpTo(MigMembers, MaxMigRules), globals : MigGlobals,
                ignore_patterns : DataPatterns,
                overrides : SeqsUpTo(MigOverrides, MaxOverrides)] :
        \/ Len(input.members) <= 1
        \/ /\ Increasing(input.members)
           /\ input.globals = EmptyMap
           /\ input.ignore_patterns = <<>>
           /\ input.overrides = <<>>}

\* A configuration file: the extension of its path (none for `.eslintrc`)
\* and its content: no JSON value, a value that is no object, or an object
\* of known fields that decode, known fields that do not, and unknown ones.
Extensions ==
    {None} \cup {Some(e) : e \in {"json", "js", "cjs", "mjs", "yaml", "JSON"}}
FileMembers ==
    {[key |-> Str("rules"), value |-> Object(ms)] : ms \in SeqsUpTo(ConfigMembers, 1)}
    \cup {[key |-> Str("rules"), value |-> Num(3)],
          [key |-> Str("extends"), value |-> Str("eslint:all")],
          [key |-> Str("extends"), value |-> Array(<<Str("eslint:all"), Num(1)>>)],
          [key |-> Str("extends"), value |-> Bool(TRUE)],
          [key |-> Str("unknownField"), value |-> Str("ignored")]}
Contents ==
    {Missing, Num(1), Str("eslint:all"), Bool(TRUE), Array(<<>>)}
    \cup {Object(ms) : ms \in SeqsUpTo(FileMembers, MaxFileMembers)}

\* Selections of a naming-convention rule: a selector list with or without
\* EnumMember, and no format, an empty format or a format of one or two
\* cases.
NamingConventionCases == {"Camel", "StrictCamel", "Pascal", "StrictPascal", "Snake", "Upper"}
Selections ==
    {NamingConventionSelection(selector, format) :
        selector \in {<<"EnumMember">>, <<"Variable">>, <<"Variable", "EnumMember">>},
        format \in {None, Some(<<>>), Some(<<"Snake", "Camel">>), Some(<<"Upper", "Pascal">>)}
                   \cup {Some(<<c>>) : c \in NamingConventionCases}}

\* Options of a filename-case rule (FilenameCaseOptions, eslint_unicorn.rs
\* 11-17, 30-41, 52-58): `case` and the four flags of `cases`; an object
\* without `case` or `cases` has the defaults Kebab and no flag.
FilenameCaseOptionsValues ==
    [case : {"Kebab", "Camel", "Snake", "Pascal"},
     cases : [kebab_case : BOOLEAN, camel_case : BOOLEAN, snake_case : BOOLEAN,
              pascal_case : BOOLEAN]]

-----------------------------------------------------------------------------
(* Operations.                                                             *)

NoCall == [op |-> "none"]

Init ==
    /\ config = ConfigData_default
    /\ diagnostics = 0
    /\ call = NoCall
    /\ ops = 0

\* Severity::deserialize of one value.
DeserializeSeverity ==
    /\ call = NoCall
    /\ \E value \in ScalarValues :
         \E r \in {Severity_deserialize(value)} :
             /\ call' = [op |-> "Severity::deserialize", value |-> value, res |-> r.res]
             /\ diagnostics' = r.diags
    /\ UNCHANGED <<config, ops>>

\* RuleConf::<T, U>::deserialize of one value.
DeserializeRuleConf ==
    /\ call = NoCall
    /\ \E T \in OptionTypes \cup {Unit}, U \in SecondaryTypes, value \in RuleValues :
         \E r \in {RuleConf_deserialize(T, U, value)} :
             /\ call' = [op |-> "RuleConf::deserialize", T |-> T, U |-> U,
                         value |-> value, res |-> r.res]
             /\ diagnostics' = r.diags
    /\ UNCHANGED <<config, ops>>

\* Rules::deserialize of one rule map; the `rules` field of the configuration
\* takes the result when there is one.
DeserializeRules ==
    /\ call = NoCall
    /\ \E members \in SeqsUpTo(Members \cup {MissingMember}, MaxMembers) :
         \E r \in {Rules_deserialize(members)} :
             /\ call' = [op |-> "Rules::deserialize", members |-> members, res |-> r.res]
             /\ diagnostics' = r.diags
             /\ config' = [config EXCEPT !.rules = IF r.res.some THEN r.res.val ELSE @]
    /\ UNCHANGED ops

\* load_config: the configuration decoded from a file with these `extends`
\* and `rules`.
LoadConfig ==
    /\ call = NoCall
    /\ \E extends \in SeqsUpTo(ExtendsNames, MaxExtends),
          members \in SeqsUpTo(ConfigMembers, MaxConfigMembers) :
         \E r \in {Rules_deserialize(members)} :
             /\ config' = [ConfigData_default EXCEPT
                              !.extends = extends,
                              !.rules = IF r.res.some THEN r.res.val ELSE @]
             /\ diagnostics' = r.diags
             /\ call' = [op |-> "load_config", extends |-> extends, members |-> members]
    /\ UNCHANGED ops

\* load_config of a file with every field of ConfigData.
LoadData ==
    /\ call = NoCall
    /\ \E extends \in SeqsUpTo(DataExtends, MaxExtends), members \in DataMembers,
          env \in DataEnvs, globals \in DataGlobals, ignore_patterns \in DataPatterns,
          overrides \in SeqsUpTo(DataOverrides, MaxOverrides) :
         \E r \in {Rules_deserialize(members)} :
             /\ config' = [extends |-> extends, env |-> env, globals |-> globals,
                           ignore_patterns |-> ignore_patterns,
                           rules |-> IF r.res.some THEN r.res.val ELSE {},
                           overrides |-> overrides]
             /\ diagnostics' = r.diags
             /\ call' = [op |-> "load_config", extends |-> extends, members |-> members]
    /\ UNCHANGED ops

\* load_config of a file that is then migrated.
LoadMigrate ==
    /\ call = NoCall
    /\ \E input \in MigrateInputs :
         \E r \in {Rules_deserialize(input.members)} :
             /\ config' = [ConfigData_default EXCEPT
                              !.globals = input.globals,
                              !.ignore_patterns = input.ignore_patterns,
                              !.rules = IF r.res.some THEN r.res.val ELSE @,
                              !.overrides = input.overrides]
             /\ diagnostics' = r.diags
             /\ call' = [op |-> "load_config", extends |-> <<>>, members |-> input.members]
    /\ UNCHANGED ops

\* load_config(fs, path, console) of a configuration file.
LoadFile ==
    /\ call = NoCall
    /\ \E extension \in Extensions, content \in Contents :
         \E r \in {load_config(extension, content)} :
             /\ config' = IF r.result.ok THEN r.result.val ELSE config
             /\ diagnostics' = r.printed
             /\ call' = [op |-> "load_config(path)", extension |-> extension,
                         content |-> content, res |-> r.result]
    /\ UNCHANGED ops

\* NamingConventionOptions::override_default(overrides).into()
TranslateNamingConvention ==
    /\ call = NoCall
    /\ \E overrides \in SeqsUpTo(Selections, MaxSelections) :
         call' = [op |-> "NamingConventionOptions::into", overrides |-> overrides,
                  res |-> NamingConventionOptions_into(override_default(overrides))]
    /\ UNCHANGED <<config, diagnostics, ops>>

\* FilenameCaseOptions -> FilenamingConventionOptions (`val.into()`)
TranslateFilenameCase ==
    /\ call = NoCall
    /\ \E val \in FilenameCaseOptionsValues :
         call' = [op |-> "FilenameCaseOptions::into", val |-> val,
                  res |-> FilenameCaseOptions_into(val)]
    /\ UNCHANGED <<config, diagnostics, ops>>

\* config.into_biome_config(options), with a table of the rules it names;
\* the sets are iterated in any order.
IntoBiomeConfig ==
    /\ call.op = "load_config"
    /\ \E options \in MigrationOptions, table \in [ConfigRuleNames(config) -> Tags],
          order \in Orders(config.rules), orders \in OverrideOrders(config.overrides) :
         \E r \in {into_biome_config(config, options, table, order, orders)} :
             call' = [op |-> "into_biome_config", members |-> call.members,
                      self |-> config, options |-> options,
                      table |-> table, order |-> order, orders |-> orders, res |-> r]
    /\ UNCHANGED <<config, diagnostics, ops>>

\* ConfigData::from_preset of a known preset.
FromPreset ==
    /\ call = NoCall
    /\ \E name \in PresetNames :
         \E preset \in {from_preset(name)} :
             /\ preset.some
             /\ config' = preset.val
             /\ call' = [op |-> "from_preset", name |-> name]
    /\ UNCHANGED <<diagnostics, ops>>

\* self.resolve_extends()
ResolveExtends ==
    /\ call # NoCall
    /\ ops < MaxOps
    /\ config' = resolve_extends(config)
    /\ call' = [op |-> "resolve_extends", self |-> config]
    /\ ops' = ops + 1
    /\ UNCHANGED diagnostics

\* self.merge_with(other), other the configuration of a known preset.
MergeWith ==
    /\ call # NoCall
    /\ ops < MaxOps
    /\ \E name \in MergePresets :
         \E preset \in {from_preset(name)} :
             /\ preset.some
             /\ config' = ConfigData_merge_with(config, preset.val)
             /\ call' = [op |-> "ConfigData::merge_with", self |-> config,
                         other |-> preset.val]
    /\ ops' = ops + 1
    /\ UNCHANGED diagnostics

\* self.rules.merge_with(other), other a copy of the set itself or the rule
\* set of a preset.
RulesMergeWith ==
    /\ call # NoCall
    /\ ops < MaxOps
    /\ \E other \in {config.rules, Rules_from_iter(REACT_JSX_RUNTIME)} :
         /\ config' = [config EXCEPT !.rules = Rules_merge_with(@, other)]
         /\ call' = [op |-> "Rules::merge_with", self |-> config.rules, other |-> other]
    /\ ops' = ops + 1
    /\ UNCHANGED diagnostics

\* self.merge_with(other), other any configuration.
MergeData ==
    /\ call # NoCall
    /\ ops < MaxOps
    /\ \E other \in OtherConfigs :
         /\ config' = ConfigData_merge_with(config, other)
         /\ call' = [op |-> "ConfigData::merge_with", self |-> config, other |-> other]
    /\ ops' = ops + 1
    /\ UNCHANGED diagnostics

NextConf == DeserializeSeverity \/ DeserializeRuleConf
NextMap == DeserializeRules
Next == LoadConfig \/ FromPreset \/ ResolveExtends \/ MergeWith \/ RulesMergeWith

NextOptions == TranslateNamingConvention \/ TranslateFilenameCase
\* Translation of the options of one rule.
SpecOptions == Init /\ [][NextOptions]_vars
NextLoad == LoadFile
\* Loading one configuration file.
SpecLoad == Init /\ [][NextLoad]_vars
NextMigrate == LoadMigrate \/ IntoBiomeConfig
\* Migrating a loaded configuration.
SpecMigrate == Init /\ [][NextMigrate]_vars
NextData == LoadData \/ ResolveExtends \/ MergeData
\* Loading, merging and resolving a configuration with every field.
SpecData == Init /\ [][NextData]_vars
\* Decoding of one rule value.
SpecConf == Init /\ [][NextConf]_vars
\* Decoding of one rule map.
SpecMap == Init /\ [][NextMap]_vars
\* A configuration is loaded (or built from a preset), then merged and resolved.
Spec == Init /\ [][Next]_vars


-----------------------------------------------------------------------------
(* Properties.                                                             *)

\* The presets of `extends` the resolver knows, in the order of the list.
KnownPresets(extends) == SelectSeq(extends, LAMBDA name : preset_rules(name).some)

\* C1. Rules::merge_with(A, B) is later-wins: after a merge of B into A (the
\* rule sets of ConfigData::merge_with(self, other)), a name configured in B
\* holds the entry of B, and a name configured only in A holds the entry of A.
C1_MergeLaterWins ==
    call.op = "ConfigData::merge_with" =>
        \A name \in Rules_names(call.self.rules) \cup Rules_names(call.other.rules) :
            /\ Rules_has(config.rules, name)
            /\ Rules_get(config.rules, name) =
                   IF Rules_has(call.other.rules, name)
                   THEN Rules_get(call.other.rules, name)
                   ELSE Rules_get(call.self.rules, name)

\* C2. After resolve_extends every rule the configuration held before it
\* (the rules the user configured) is still in the rule set with the same
\* value, and it is the only entry of that name, whatever the presets say.
C2_UserRulesKept ==
    call.op = "resolve_extends" =>
        \A rule \in call.self.rules :
            /\ rule \in config.rules
            /\ Rules_get(config.rules, Rule_name(rule)) = rule

\* A resolve_extends whose presets configure, with another severity, a rule
\* the user configured.
C2_Witness ==
    /\ call.op = "resolve_extends"
    /\ Len(KnownPresets(call.self.extends)) = 2
    /\ \E rule \in call.self.rules :
         /\ \A i \in 1..2 :
              \E p \in preset_rules(KnownPresets(call.self.extends)[i]).val :
                  /\ Rule_name(p) = Rule_name(rule)
                  /\ Rule_severity(p) # Rule_severity(rule)
         /\ rule \in config.rules

\* C3. resolve_extends with extends = [P1, P2], both known: a rule that P1
\* and P2 configure with different severities and that the configuration
\* does not configure itself ends with the severity of P2.
C3_ExtendsLaterWins ==
    (/\ call.op = "resolve_extends"
     /\ Len(call.self.extends) = 2
     /\ Len(KnownPresets(call.self.extends)) = 2) =>
        LET P1 == preset_rules(call.self.extends[1]).val
            P2 == preset_rules(call.self.extends[2]).val
        IN  \A name \in Rules_names(P1) \cap Rules_names(P2) :
                (/\ ~Rules_has(call.self.rules, name)
                 /\ Rule_severity(Rules_get(P1, name)) # Rule_severity(Rules_get(P2, name)))
                => /\ Rules_has(config.rules, name)
                   /\ Rule_severity(Rules_get(config.rules, name)) =
                          Rule_severity(Rules_get(P2, name))

\* C4. A Rules set never holds two entries with the same rule name.
C4_UniqueNames ==
    \A a, b \in config.rules : Rule_name(a) = Rule_name(b) => a = b

\* A merge in which both sets configure one name with different values, into
\* a set decoded from a map that repeats a key.
C4_Witness ==
    /\ call.op = "ConfigData::merge_with"
    /\ \E a \in call.self.rules, b \in call.other.rules :
         Rule_name(a) = Rule_name(b) /\ a # b
    /\ Cardinality(config.rules) >= 2

\* The members of a rule map the decoder reads: those with a key.
\* RuleOf is the Rule a member decodes to, WellFormed says there is one.
RuleOf(m) == visit_member(m.key.str, m.value)
WellFormed(m) == m.key.type = "STR" /\ RuleOf(m).res.some
RemoveAt(s, i) == SubSeq(s, 1, i - 1) \o SubSeq(s, i + 1, Len(s))

\* C5. Rule::name() returns the configured name: every member of a decoded
\* rule map that decodes gives a Rule whose name() is the key of the member,
\* and the set holds an entry of that name; Rule::new(n, s).name() = n.
C5_NameIsKey ==
    /\ call.op = "Rules::deserialize" =>
           \A i \in 1..Len(call.members) :
               WellFormed(call.members[i]) =>
                   /\ Rule_name(RuleOf(call.members[i]).res.val) = call.members[i].key.str
                   /\ Rules_has(config.rules, call.members[i].key.str)
    /\ \A n \in ModelledNames, s \in Severities : Rule_name(Rule_new(n, s)) = n

\* The severity the specification gives a number or a string.
SeverityOf(value) ==
    CASE value = Num(0) \/ value = Str("off") -> Some("Off")
      [] value = Num(1) \/ value = Str("warn") -> Some("Warn")
      [] value = Num(2) \/ value = Str("error") -> Some("Error")
      [] OTHER -> None

\* C6. Severity decoding: 0 and "off" are Off, 1 and "warn" are Warn, 2 and
\* "error" are Error; every other number and every other string fails.
C6_SeverityDecoding ==
    (/\ call.op = "Severity::deserialize"
     /\ call.value.type \in {"NUMBER", "STR"}) =>
        /\ call.res = SeverityOf(call.value)
        /\ ~call.res.some => diagnostics >= 1

\* The decoding of 2 and the failed decoding of a string that names no
\* severity are both among the calls; the witness is the first.
C6_Witness ==
    /\ call.op = "Severity::deserialize"
    /\ call.value = Num(2)
    /\ call.res = Some("Error")

\* C7. RuleConf recovery: for a rule with options, the array
\* [severity, valid_primary, garbage], whose third element decodes neither
\* as the secondary type nor as a primary option, decodes to
\* Option(severity, valid_primary); the rule is not lost.
C7_Recovery ==
    (/\ call.op = "RuleConf::deserialize"
     /\ call.T # Unit
     /\ call.value.type = "ARRAY"
     /\ Len(flatten(call.value.items)) = 3) =>
        LET values == flatten(call.value.items)
            severity == Severity_deserialize(values[1]).res
            primary == Option_deserialize(call.T, values[2]).res
        IN  (/\ severity.some
             /\ primary.some
             /\ ~Option_deserialize(call.T, values[3]).res.some
             /\ call.U # Unit => ~Option_deserialize(call.U, values[3]).res.some)
            => call.res = Some(RuleConf_Option(severity.val, primary.val))

C7_Witness ==
    /\ call.op = "RuleConf::deserialize"
    /\ call.T = "ArrayTypeOptions"
    /\ call.U = Unit
    /\ call.value = Array(<<Str("error"), Map("o1"), Num(3)>>)
    /\ call.res = Some(RuleConf_Option("Error", [variant |-> "ArrayTypeOptions", of |-> "o1"]))
    /\ diagnostics >= 1

\* An array rule value with no element, or whose first element is no
\* severity.
BadArray(value) ==
    /\ value.type = "ARRAY"
    /\ \/ flatten(value.items) = <<>>
       \/ ~Severity_deserialize(flatten(value.items)[1]).res.some

\* C8. A rule value that is an array with no element 0 (empty) or whose
\* element 0 does not decode as a Severity gives no RuleConf, the rule is not
\* inserted (the set is the one decoded from the map without the member),
\* and the member adds at least one diagnostic.
C8_BadSeverityDropped ==
    call.op = "Rules::deserialize" =>
        \A i \in 1..Len(call.members) :
            (call.members[i].key.type = "STR" /\ BadArray(call.members[i].value)) =>
                /\ ~RuleConf_deserialize(
                       VariantOption(KeyVariant(call.members[i].key.str)), Unit,
                       call.members[i].value).res.some
                /\ ~RuleOf(call.members[i]).res.some
                /\ config.rules = Rules_deserialize(RemoveAt(call.members, i)).res.val
                /\ diagnostics > Rules_deserialize(RemoveAt(call.members, i)).diags

\* A map with a member whose array has an undecodable severity, and another
\* member that is inserted.
C8_Witness ==
    /\ call.op = "Rules::deserialize"
    /\ \E i, j \in 1..Len(call.members) :
         /\ call.members[i].key.type = "STR"
         /\ call.members[i].value = Array(<<Str("event")>>)
         /\ WellFormed(call.members[j])
    /\ Cardinality(config.rules) = 1
    /\ diagnostics >= 1

\* C9. A member of a rule map that does not decode drops only itself: the
\* map always decodes, the set is the one decoded from the well-formed
\* members alone, it holds an entry for every well-formed member, and that
\* entry is the member's own whenever no other well-formed member has the
\* same rule identity.
C9_MalformedDropsOnlyItself ==
    call.op = "Rules::deserialize" =>
        /\ call.res.some
        /\ config.rules = Rules_deserialize(SelectSeq(call.members, WellFormed)).res.val
        /\ \A i \in 1..Len(call.members) :
             WellFormed(call.members[i]) =>
                 /\ Rules_has(config.rules, Rule_name(RuleOf(call.members[i]).res.val))
                 /\ (\A j \in 1..Len(call.members) :
                        (j # i /\ WellFormed(call.members[j])) =>
                            ~Rule_eq(RuleOf(call.members[j]).res.val,
                                     RuleOf(call.members[i]).res.val))
                    => RuleOf(call.members[i]).res.val \in config.rules

\* A map whose first member does not decode and whose second does.
C9_Witness ==
    /\ call.op = "Rules::deserialize"
    /\ Len(call.members) = 2
    /\ call.members[1].key.type = "STR"
    /\ ~WellFormed(call.members[1])
    /\ WellFormed(call.members[2])
    /\ config.rules = {RuleOf(call.members[2]).res.val}
    /\ diagnostics >= 1

\* C10. For a rule without options (T = ()), the array [severity, x1, .., xn]
\* decodes to Severity(severity) whatever x1..xn are, and no diagnostic is
\* emitted about them.
C10_ExtrasIgnored ==
    (/\ call.op = "RuleConf::deserialize"
     /\ call.T = Unit
     /\ call.value.type = "ARRAY"
     /\ flatten(call.value.items) # <<>>
     /\ Severity_deserialize(flatten(call.value.items)[1]).res.some) =>
        /\ call.res = Some(RuleConf_Severity(
                          Severity_deserialize(flatten(call.value.items)[1]).res.val))
        /\ diagnostics = 0

C10_Witness ==
    /\ call.op = "RuleConf::deserialize"
    /\ call.T = Unit
    /\ call.value = Array(<<Str("error"), Map("o1"), Num(3)>>)
    /\ call.res = Some(RuleConf_Severity("Error"))
    /\ diagnostics = 0

\* C11. For a rule with a primary option type and no secondary type, the
\* array [severity, o1, .., on], n >= 2, in which every oi decodes as the
\* primary type, decodes to Spread(severity, [o1, .., on]) in this order;
\* and every Spread that decoding produces holds at least two options.
C11_Spread ==
    (/\ call.op = "RuleConf::deserialize"
     /\ call.T # Unit) =>
        /\ (/\ call.U = Unit
            /\ call.value.type = "ARRAY"
            /\ Len(flatten(call.value.items)) >= 3
            /\ Severity_deserialize(flatten(call.value.items)[1]).res.some
            /\ \A i \in 2..Len(flatten(call.value.items)) :
                 Option_deserialize(call.T, flatten(call.value.items)[i]).res.some)
           => call.res =
                Some(RuleConf_Spread(
                    Severity_deserialize(flatten(call.value.items)[1]).res.val,
                    [i \in 1..(Len(flatten(call.value.items)) - 1) |->
                        Option_deserialize(call.T, flatten(call.value.items)[i + 1]).res.val]))
        /\ (call.res.some /\ call.res.val.variant = "Spread")
           => Len(call.res.val.options) >= 2

\* Three options of a variadic rule, two of them different, kept in order.
C11_Witness ==
    /\ call.op = "RuleConf::deserialize"
    /\ call.T = "NoRestrictedGlobal"
    /\ call.U = Unit
    /\ call.value = Array(<<Num(1), Str("event"), Map("o1"), Str("error")>>)
    /\ call.res.some
    /\ call.res.val.variant = "Spread"
    /\ Len(call.res.val.options) = 3
    /\ call.res.val.options[1].variant = "Plain"
    /\ call.res.val.options[2].variant = "WithMessage"

\* C12. Rules::merge_with is idempotent: merging a set with an identical
\* copy of itself yields a set with the same names and the same value for
\* each name, that is the same set.
C12_MergeIdempotent ==
    (call.op = "Rules::merge_with" /\ call.other = call.self) =>
        /\ Rules_names(config.rules) = Rules_names(call.self)
        /\ \A name \in Rules_names(call.self) :
             Rules_get(config.rules, name) = Rules_get(call.self, name)
        /\ config.rules = call.self

\* A set of several rules, one of them with a RuleConf, merged with itself.
C12_Witness ==
    /\ call.op = "Rules::merge_with"
    /\ call.other = call.self
    /\ Cardinality(call.self) >= 3
    /\ \E r \in call.self : r.variant # "Any"
    /\ config.rules = call.self

\* C13. Unknown preset names are skipped: resolve_extends of a
\* configuration whose `extends` holds only unknown names leaves rules, env,
\* globals, ignore_patterns and overrides unchanged; with known and unknown
\* names the result is that of resolving the known names alone, in order.
C13_UnknownSkipped ==
    call.op = "resolve_extends" =>
        /\ KnownPresets(call.self.extends) = <<>> =>
               /\ config.rules = call.self.rules
               /\ config.env = call.self.env
               /\ config.globals = call.self.globals
               /\ config.ignore_patterns = call.self.ignore_patterns
               /\ config.overrides = call.self.overrides
        /\ config = resolve_extends(
                        [call.self EXCEPT !.extends = KnownPresets(call.self.extends)])

\* An unknown name before a known one, in a configuration with every field.
C13_Witness ==
    /\ call.op = "resolve_extends"
    /\ call.self.extends = <<"plugin:prettier/recommended", "plugin:react/jsx-runtime">>
    /\ call.self.env # EmptyMap
    /\ call.self.overrides # <<>>
    /\ Rules_has(config.rules, "react/jsx-uses-react")

\* C14. After resolve_extends the `extends` list is empty, so a second
\* resolve_extends leaves every field of the configuration unchanged.
C14_ResolveOnce ==
    call.op = "resolve_extends" =>
        /\ config.extends = <<>>
        /\ resolve_extends(config) = config
        /\ call.self.extends = <<>> => config = call.self

\* The second of two calls, the first of which merged a preset.
C14_Witness ==
    /\ call.op = "resolve_extends"
    /\ ops = 2
    /\ call.self.extends = <<>>
    /\ Rules_has(call.self.rules, "react/jsx-uses-react")
    /\ ~Rules_has(call.self.rules, "no-var")
    /\ config = call.self

\* C15. resolve_extends leaves `overrides` unchanged: the same blocks in the
\* same order, each with its rules, files, excluded_files, globals, env and
\* extends as before.
C15_OverridesUntouched ==
    call.op = "resolve_extends" => config.overrides = call.self.overrides

\* The base names a known preset and an override block names one too.
C15_Witness ==
    /\ call.op = "resolve_extends"
    /\ KnownPresets(call.self.extends) # <<>>
    /\ \E i \in DOMAIN call.self.overrides :
         call.self.overrides[i].extends = <<"eslint:all">>
    /\ config.overrides = call.self.overrides
    /\ config.rules # call.self.rules

\* C16. ConfigData::merge_with(base, incoming): extends, ignore_patterns
\* and overrides are the elements of base followed by those of incoming;
\* env and globals are the union of the maps, a key of both taking the value
\* of incoming.
C16_MergeFields ==
    call.op = "ConfigData::merge_with" =>
        /\ config.extends = call.self.extends \o call.other.extends
        /\ config.ignore_patterns = call.self.ignore_patterns \o call.other.ignore_patterns
        /\ config.overrides = call.self.overrides \o call.other.overrides
        /\ DOMAIN config.env = DOMAIN call.self.env \cup DOMAIN call.other.env
        /\ \A k \in DOMAIN config.env :
             config.env[k] = IF k \in DOMAIN call.other.env THEN call.other.env[k]
                             ELSE call.self.env[k]
        /\ DOMAIN config.globals = DOMAIN call.self.globals \cup DOMAIN call.other.globals
        /\ \A k \in DOMAIN config.globals :
             config.globals[k] = IF k \in DOMAIN call.other.globals
                                 THEN call.other.globals[k]
                                 ELSE call.self.globals[k]

\* Both sides have every list non-empty and disagree on a key of env and on
\* a key of globals.
C16_Witness ==
    /\ call.op = "ConfigData::merge_with"
    /\ call.self.extends # <<>> /\ call.other.extends # <<>>
    /\ call.self.ignore_patterns # <<>> /\ call.other.ignore_patterns # <<>>
    /\ call.self.overrides # <<>> /\ call.other.overrides # <<>>
    /\ "browser" \in DOMAIN call.self.env /\ "browser" \in DOMAIN call.other.env
    /\ call.self.env["browser"] # call.other.env["browser"]
    /\ "var1" \in DOMAIN call.self.globals /\ "var1" \in DOMAIN call.other.globals
    /\ call.self.globals["var1"] # call.other.globals["var1"]
    /\ config.env["browser"] = call.other.env["browser"]

\* The globals list of a target configuration (empty when it has no
\* javascript section), and the rule set of its linter section.
TargetGlobals(target) ==
    IF target.javascript.some THEN target.javascript.val.globals ELSE {}
TargetRules(target) ==
    IF target.linter.val.rules.some THEN target.linter.val.rules.val ELSE EmptyMap

\* C17. The javascript globals list of the target configuration holds
\* exactly the base global names whose GlobalConf is enabled: Flag(true) and
\* the qualifiers readable, readonly, writable, writeable; not Flag(false)
\* and not the qualifier off.
C17_GlobalsEnabled ==
    call.op = "into_biome_config" =>
        TargetGlobals(call.res.config) =
            {name \in DOMAIN call.self.globals :
                \/ call.self.globals[name] = Flag(TRUE)
                \/ /\ call.self.globals[name].variant = "Qualifier"
                   /\ call.self.globals[name].qualifier \in
                          {"Readable", "Readonly", "Writable", "Writeable"}}

\* {"globals": {"var1": "writable", "var2": "readonly", "var3": "off"}}
C17_Witness ==
    /\ call.op = "into_biome_config"
    /\ DOMAIN call.self.globals = {"var1", "var2", "var3"}
    /\ call.self.globals["var3"] = Qualifier("Off")
    /\ call.res.config.javascript = Some([globals |-> {"var1", "var2"}])

\* C18. Each override block yields a target override entry scoped by its
\* globs: the include list of the entry is the block's `files`, its ignore
\* list is the block's `excluded_files`, each present only when non-empty.
C18_OverrideGlobs ==
    (call.op = "into_biome_config" /\ call.self.overrides # <<>>) =>
        /\ call.res.config.overrides.some
        /\ Len(call.res.config.overrides.val) = Len(call.self.overrides)
        /\ \A i \in DOMAIN call.self.overrides :
             /\ call.res.config.overrides.val[i].include =
                    IF call.self.overrides[i].files # <<>>
                    THEN Some(StringSet(call.self.overrides[i].files))
                    ELSE None
             /\ call.res.config.overrides.val[i].ignore =
                    IF call.self.overrides[i].excluded_files # <<>>
                    THEN Some(StringSet(call.self.overrides[i].excluded_files))
                    ELSE None

\* C19. Override blocks never change the base rule set: the target rule set
\* of a configuration is the one of the same configuration without
\* overrides and holds only target rules of the base rules; the rule set of
\* each target override is the migration of the rules of that block alone.
C19_OverridesApart ==
    call.op = "into_biome_config" =>
        /\ call.res.config.linter.val.rules =
               into_biome_config([call.self EXCEPT !.overrides = <<>>], call.options,
                                 call.table, call.order, <<>>).config.linter.val.rules
        /\ \A target \in DOMAIN TargetRules(call.res.config) :
               \E rule \in call.self.rules : TargetOf(Rule_name(rule)) = target
        /\ \A i \in DOMAIN call.self.overrides :
               IF call.self.overrides[i].rules = {}
               THEN call.res.config.overrides.val[i].linter = None
               ELSE /\ call.res.config.overrides.val[i].linter =
                           Some([rules |-> Some(into_biome_rules(call.orders[i], call.options,
                                                    MigrationResults_default,
                                                    call.table).rules)])
                    /\ \A target \in DOMAIN call.res.config.overrides.val[i].linter.val.rules.val :
                           \E rule \in call.self.overrides[i].rules :
                               TargetOf(Rule_name(rule)) = target

\* A migrated base rule and a migrated rule of another name in an override
\* block.
C19_Witness ==
    /\ call.op = "into_biome_config"
    /\ Rules_names(call.self.rules) = {"eqeqeq"}
    /\ Len(call.self.overrides) = 1
    /\ Rules_names(call.self.overrides[1].rules) = {"no-restricted-globals"}
    /\ DOMAIN TargetRules(call.res.config) = {TargetOf("eqeqeq")}
    /\ call.res.config.overrides.val[1].linter.some
    /\ DOMAIN call.res.config.overrides.val[1].linter.val.rules.val =
           {TargetOf("no-restricted-globals")}

\* A rule is migrated when the table has a target for it that the options
\* do not exclude.
Migrated(table, opts, name) ==
    /\ TagOf(table, name) # "absent"
    /\ TagOf(table, name) = "inspired" => opts.include_inspired
    /\ TagOf(table, name) = "nursery" => opts.include_nursery

\* The entries of a target rule set are targets of migrated rules of the
\* source rule set, and a rule that is not migrated has no entry (unless a
\* migrated rule of the set has the same target rule).
OnlyMigrated(source, target_rules, table, opts) ==
    /\ \A target \in DOMAIN target_rules :
           \E rule \in source :
               /\ TargetOf(Rule_name(rule)) = target
               /\ Migrated(table, opts, Rule_name(rule))
    /\ \A rule \in source :
           (/\ ~Migrated(table, opts, Rule_name(rule))
            /\ \A other \in source :
                   TargetOf(Rule_name(other)) = TargetOf(Rule_name(rule)) =>
                       ~Migrated(table, opts, Rule_name(other)))
           => TargetOf(Rule_name(rule)) \notin DOMAIN target_rules

\* C20. A target rule entry is written only for a migrated rule: every
\* entry of a target rule set (base or override) is the target of a rule of
\* that set that is migrated, and a rule that is unsupported, inspired with
\* include_inspired = false or nursery with include_nursery = false has no
\* entry, the five rules with translated options included.
C20_OnlyMigratedWritten ==
    call.op = "into_biome_config" =>
        /\ OnlyMigrated(call.self.rules, TargetRules(call.res.config),
                        call.table, call.options)
        /\ \A i \in DOMAIN call.self.overrides :
               call.self.overrides[i].rules # {} =>
                   /\ call.res.config.overrides.val[i].linter.some
                   /\ OnlyMigrated(call.self.overrides[i].rules,
                                   call.res.config.overrides.val[i].linter.val.rules.val,
                                   call.table, call.options)

\* A rule with translated options that is inspired and excluded, next to a
\* rule that is migrated.
C20_Witness ==
    /\ call.op = "into_biome_config"
    /\ ~call.options.include_inspired
    /\ Rules_names(call.self.rules) = {"eqeqeq", "unicorn/filename-case"}
    /\ call.table["unicorn/filename-case"] = "inspired"
    /\ call.table["eqeqeq"] = "plain"
    /\ DOMAIN TargetRules(call.res.config) = {TargetOf("eqeqeq")}
    /\ call.res.results.inspired_rules = <<"unicorn/filename-case">>

\* The four lists of a migration report, and the number of entries of a
\* list that are equal to a name.
Buckets == {"migrated_rules", "unsupported_rules", "inspired_rules", "nursery_rules"}
Occurrences(list, name) == Cardinality({i \in DOMAIN list : list[i] = name})

\* C21. Every rule configured in a migrated rule set (base or override) is
\* in exactly one of the four lists of the report: each name is in one list
\* and no other, once for each rule set that configures it, and the report
\* names nothing else.
C21_OneBucket ==
    call.op = "into_biome_config" =>
        /\ \A name \in ConfigRuleNames(call.self) :
               \E b \in Buckets :
                   /\ Occurrences(call.res.results[b], name) =
                          (IF Rules_has(call.self.rules, name) THEN 1 ELSE 0)
                          + Cardinality({i \in DOMAIN call.self.overrides :
                                            Rules_has(call.self.overrides[i].rules, name)})
                   /\ \A other \in Buckets \ {b} :
                          Occurrences(call.res.results[other], name) = 0
        /\ \A b \in Buckets : \A i \in DOMAIN call.res.results[b] :
               call.res.results[b][i] \in ConfigRuleNames(call.self)

\* A base rule that is migrated and a rule of another name in an override
\* block that is excluded as a nursery rule.
C21_Witness ==
    /\ call.op = "into_biome_config"
    /\ Rules_names(call.self.rules) = {"jsx-a11y/aria-role"}
    /\ Len(call.self.overrides) = 1
    /\ Rules_names(call.self.overrides[1].rules) = {"eqeqeq"}
    /\ call.res.results =
           [MigrationResults_default EXCEPT !.migrated_rules = <<"jsx-a11y/aria-role">>,
                                            !.nursery_rules = <<"eqeqeq">>]

\* The level of a severity: Off to off, Warn to warn, Error to error.
LevelOf(severity) ==
    IF severity = "Off" THEN "off" ELSE IF severity = "Warn" THEN "warn" ELSE "error"

\* In a target rule set made from the rules iterated in `order`, the entry
\* of every migrated rule has the level of the rule's severity; when several
\* migrated rules have the same target rule the entry is the one of the rule
\* iterated last.
LevelsKept(order, target_rules, table, opts) ==
    \A i \in DOMAIN order :
        (/\ Migrated(table, opts, Rule_name(order[i]))
         /\ \A j \in DOMAIN order :
                (j > i /\ Migrated(table, opts, Rule_name(order[j]))) =>
                    TargetOf(Rule_name(order[j])) # TargetOf(Rule_name(order[i])))
        => /\ TargetOf(Rule_name(order[i])) \in DOMAIN target_rules
           /\ target_rules[TargetOf(Rule_name(order[i]))].level =
                  LevelOf(Rule_severity(order[i]))

C23_LoadErrors ==
    call.op = "load_config(path)" =>
        /\ ~call.res.ok <=>
               \/ call.extension = None
               \/ call.extension \notin {Some("json"), Some("js"), Some("cjs")}
               \/ ~ConfigData_deserialize(call.content).res.some
        /\ (/\ call.extension \in {Some("json"), Some("js"), Some("cjs")}
            /\ ConfigData_deserialize(call.content).res.some)
           => /\ call.res = Ok(ConfigData_deserialize(call.content).res.val)
              /\ config = call.res.val

\* {"rules": 3, "extends": ["eslint:all", 1]} in a .cjs file: two
\* diagnostics, and Ok with the part that decodes.
C23_Witness ==
    /\ call.op = "load_config(path)"
    /\ call.extension = Some("cjs")
    /\ diagnostics = 2
    /\ call.res.ok
    /\ call.res.val = [ConfigData_default EXCEPT !.extends = <<"eslint:all">>]

\* The selections of a list that contain EnumMember, and whether a
\* selection declares a format.
HasEnumMember(selection) ==
    \E i \in DOMAIN selection.selector : selection.selector[i] = "EnumMember"
DeclaresFormat(selection) == selection.format.some /\ selection.format.val # <<>>

\* The case a format entry gives.
EnumMemberCaseOf(case) ==
    CASE case \in {"Camel", "StrictCamel"} -> "Camel"
      [] case \in {"Pascal", "StrictPascal"} -> "Pascal"
      [] case = "Upper" -> "Constant"
      [] OTHER -> "default"

\* C24. The naming-convention translator takes the enum-member case from
\* the selection that contains EnumMember, keeping the first entry of its
\* format: camelCase and strictCamelCase give Camel, PascalCase and
\* StrictPascalCase give Pascal, UPPER_CASE gives Constant, snake_case or no
\* such selection gives the default; strict_case is true exactly for the two
\* strict formats. Of several selections with EnumMember the last one that
\* declares a format counts: a later one that declares none does not cancel
\* it.
C24_EnumMemberCase ==
    call.op = "NamingConventionOptions::into" =>
        LET declaring == {i \in DOMAIN call.overrides :
                             HasEnumMember(call.overrides[i]) /\ DeclaresFormat(call.overrides[i])}
        IN  IF declaring = {}
            THEN call.res = [strict_case |-> FALSE, require_ascii |-> FALSE,
                             enum_member_case |-> "default"]
            ELSE LET last == CHOOSE i \in declaring : \A j \in declaring : j <= i
                     first == Head(call.overrides[last].format.val)
                 IN  call.res = [strict_case |-> first \in {"StrictCamel", "StrictPascal"},
                                 require_ascii |-> FALSE,
                                 enum_member_case |-> EnumMemberCaseOf(first)]

\* C25. The filename-case translator yields the set of the cases whose flag
\* is true in `cases` when at least one flag is true, whatever `case` is;
\* when the four flags are false it yields the set of `case` alone. The set
\* is never empty.
C25_FilenameCases ==
    call.op = "FilenameCaseOptions::into" =>
        LET flagged == (IF call.val.cases.kebab_case THEN {"kebab-case"} ELSE {})
                       \cup (IF call.val.cases.camel_case THEN {"camelCase"} ELSE {})
                       \cup (IF call.val.cases.snake_case THEN {"snake_case"} ELSE {})
                       \cup (IF call.val.cases.pascal_case THEN {"PascalCase"} ELSE {})
            single == IF call.val.case = "Kebab" THEN "kebab-case"
                      ELSE IF call.val.case = "Camel" THEN "camelCase"
                      ELSE IF call.val.case = "Snake" THEN "snake_case"
                      ELSE "PascalCase"
        IN  /\ call.res.filename_cases = IF flagged # {} THEN flagged ELSE {single}
            /\ call.res.filename_cases # {}

\* {"case": "snakeCase", "cases": {"camelCase": true, "pascalCase": true}}
C25_Witness ==
    /\ call.op = "FilenameCaseOptions::into"
    /\ call.val.case = "Snake"
    /\ call.val.cases = [kebab_case |-> FALSE, camel_case |-> TRUE, snake_case |-> FALSE,
                         pascal_case |-> TRUE]
    /\ call.res.filename_cases = {"camelCase", "PascalCase"}

\* The option type and the translator of the rules with one option.
SingleOptionRules ==
    ("@typescript-eslint/array-type" :>
         [T |-> "ArrayTypeOptions", translator |-> "ConsistentArrayTypeOptions"])
    @@ ("jsx-a11y/aria-role" :>
         [T |-> "AriaRoleOptions", translator |-> "ValidAriaRoleOptions"])
    @@ ("unicorn/filename-case" :>
         [T |-> "FilenameCaseOptions", translator |-> "FilenamingConventionOptions"])

\* C26. For a rule with one option (array-type, aria-role, filename-case),
\* an option that decodes at index 1 of the array is the one translated
\* into the options of the migrated target rule, whatever elements follow
\* it: elements that do not decode and elements that decode as one more
\* option alike.
C26_PrimaryOptionKept ==
    call.op = "into_biome_config" =>
        \A i \in DOMAIN call.members :
            LET m == call.members[i]
                name == m.key.str
            IN  (/\ name \in DOMAIN SingleOptionRules
                 /\ \A j \in 1..(i - 1) : call.members[j].key # m.key
                 /\ is_type(m.value, "ARRAY")
                 /\ Len(flatten(m.value.items)) >= 2
                 /\ Severity_deserialize(flatten(m.value.items)[1]).res.some
                 /\ Option_deserialize(SingleOptionRules[name].T,
                                       flatten(m.value.items)[2]).res.some
                 /\ Migrated(call.table, call.options, name))
                => /\ TargetOf(name) \in DOMAIN TargetRules(call.res.config)
                   /\ TargetRules(call.res.config)[TargetOf(name)].options =
                          Some([translator |-> SingleOptionRules[name].translator,
                                from |-> Option_deserialize(SingleOptionRules[name].T,
                                             flatten(m.value.items)[2]).res.val])

\* C27. The preset plugin:unicorn/all configures every rule of the unicorn
\* NON_RECOMMENDED table at the severity given there (Error), the rules
\* that RECOMMENDED lists as Off included: for a name in both chained
\* tables the preset has the value of the table chained last.
C27_ChainedLast ==
    (call.op = "from_preset" /\ call.name = "plugin:unicorn/all") =>
        \A i \in DOMAIN UNICORN_NON_RECOMMENDED :
            /\ Rules_has(config.rules, UNICORN_NON_RECOMMENDED[i][1])
            /\ Rule_severity(Rules_get(config.rules, UNICORN_NON_RECOMMENDED[i][1])) =
                   UNICORN_NON_RECOMMENDED[i][2]

\* C28. Globals are filtered in an override block as in the base
\* configuration: the globals list of a target override holds exactly the
\* names of the block whose GlobalConf is enabled, so a global declared
\* "off" or false is not in it.
C28_OverrideGlobalsEnabled ==
    call.op = "into_biome_config" =>
        \A i \in DOMAIN call.self.overrides :
            call.self.overrides[i].globals # EmptyMap =>
                /\ call.res.config.overrides.val[i].javascript.some
                /\ call.res.config.overrides.val[i].javascript.val.globals =
                       {name \in DOMAIN call.self.overrides[i].globals :
                           /\ call.self.overrides[i].globals[name] # Flag(FALSE)
                           /\ call.self.overrides[i].globals[name] # Qualifier("Off")}

\* C29. The target rule set of Rules::into_biome_rules does not depend on
\* the order in which the source rule set is iterated: every order of the
\* same rules gives the same target rules at the same levels, also when two
\* source rules have the same target rule at different severities.
C29_OrderIndependent ==
    (call.op = "into_biome_config" /\ call.self.rules # {}) =>
        \A order \in Orders(call.self.rules) :
            into_biome_rules(order, call.options, MigrationResults_default,
                             call.table).rules = TargetRules(call.res.config)

\* C30. Within one into_biome_config run no list of the report holds the
\* same rule name twice, also when a rule is configured in the base rules
\* and in override blocks.
C30_NoDuplicateNames ==
    call.op = "into_biome_config" =>
        \A b \in Buckets : \A i, j \in DOMAIN call.res.results[b] :
            i # j => call.res.results[b][i] # call.res.results[b][j]

=============================================================================
